---- MODULE Spec2Model ----
(***************************************************************************)
(* Model of the Salesforce Apex anti-pattern scanner:                      *)
(*   src/src/parser/apexParser.ts            ApexParser (text -> facts)    *)
(*   src/src/analyzer/antiPatternAnalyzer.ts AntiPatternAnalyzer           *)
(*                                                                         *)
(* Source text is a sequence of one-character strings.  Character offsets  *)
(* are zero-based, as in the TypeScript source; lines and columns are      *)
(* zero-based too.  A thrown exception is the value Threw.                 *)
(***************************************************************************)
EXTENDS Integers, Sequences, FiniteSets, TLC

VARIABLES
    text,       \* ApexParser.text: the source text being scanned
    parsed,     \* the ParsedApexFile (built field by field by parse())
    testParsed, \* testClassParsed of scanDocument: <<>> for null, else <<ParsedApexFile>>
    config,     \* AntiPatternAnalyzer.config
    issues,     \* the AntiPatternIssue list built so far
    pc,         \* position of the running operation
    walk,       \* arguments of the running via-call walk: kind, loop, originalCall
    stack,      \* call stack of detect*InCalledMethods: frames [method, i]
    visited,    \* the Set<string> shared by all frames of one walk
    expanded,   \* history: names whose method the walk has recursed into
    documents,  \* the open TextDocuments of the editor: uri -> content
    workspace,  \* the files vscode.workspace.findFiles and openTextDocument see
    debounceTimer,         \* debounceTimer of activate(): <<>> or <<document>> of the pending timeout
    scans,                 \* the scanDocument calls suspended at an await
    diagnosticCollection,  \* diagnosticCollection: uri -> the issues last set
    started                \* history: per uri, the scanDocument calls started so far

editorVars == <<documents, workspace, debounceTimer, scans, diagnosticCollection, started>>

vars == <<text, parsed, testParsed, config, issues, pc, walk, stack, visited, expanded, editorVars>>

\* the state of the editor variables where no document is open
NoEditor ==
    /\ documents = <<>>
    /\ workspace = <<>>
    /\ debounceTimer = <<>>
    /\ scans = <<>>
    /\ diagnosticCollection = <<>>
    /\ started = <<>>

(***************************************************************************)
(* Generic helpers                                                         *)
(***************************************************************************)
Range(s) == {s[k] : k \in DOMAIN s}

NoDup(s) == \A a, b \in DOMAIN s : s[a] = s[b] => a = b

RECURSIVE FlattenSeq(_)
FlattenSeq(ss) == IF ss = <<>> THEN <<>> ELSE Head(ss) \o FlattenSeq(Tail(ss))

SelectIdx(s, Test(_)) == {k \in DOMAIN s : Test(s[k])}

\* Sequences without repetition over the set S, of length at most n
RECURSIVE DupFreeSeqs(_, _)
DupFreeSeqs(S, n) ==
    IF n = 0 THEN {<<>>}
    ELSE LET shorter == DupFreeSeqs(S, n - 1)
         IN shorter \cup UNION {{Append(s, x) : x \in S \ Range(s)} : s \in shorter}

(***************************************************************************)
(* Text: a string is a sequence of one-character strings; offsets count    *)
(* from 0 as in the source.                                                *)
(***************************************************************************)
\* this.text[i] || ''
At(t, i) == IF i >= 0 /\ i < Len(t) THEN t[i + 1] ELSE ""

\* text.substring(from, to)
substring(t, from, to) == SubSeq(t, from + 1, to)

\* the least element of a non-empty set of offsets
Least(S) == CHOOSE x \in S : \A y \in S : x <= y

UpperCase ==
    <<"A", "B", "C", "D", "E", "F", "G", "H", "I", "J", "K", "L", "M",
      "N", "O", "P", "Q", "R", "S", "T", "U", "V", "W", "X", "Y", "Z">>

LowerCase ==
    <<"a", "b", "c", "d", "e", "f", "g", "h", "i", "j", "k", "l", "m",
      "n", "o", "p", "q", "r", "s", "t", "u", "v", "w", "x", "y", "z">>

Digits == {"0", "1", "2", "3", "4", "5", "6", "7", "8", "9"}

toLowerCase(c) ==
    IF c \in Range(UpperCase)
    THEN LowerCase[CHOOSE k \in DOMAIN UpperCase : UpperCase[k] = c]
    ELSE c

toUpperCase(c) ==
    IF c \in Range(LowerCase)
    THEN UpperCase[CHOOSE k \in DOMAIN LowerCase : LowerCase[k] = c]
    ELSE c

\* the character classes of the source's regular expressions
IsDigit(c) == c \in Digits                                              \* \d
IsAlnum(c) == c \in Range(UpperCase) \cup Range(LowerCase) \cup Digits  \* [a-zA-Z0-9]
IsWordChar(c) == IsAlnum(c) \/ c = "_"                                  \* \w
IsSpace(c) == c \in {" ", "\n", "\t", "\r"}                             \* \s

\* \b at offset i: exactly one of the two neighbours is a word character
IsWordBoundary(t, i) == IsWordChar(At(t, i - 1)) # IsWordChar(At(t, i))

\* a literal of a case-insensitive pattern (w in lower case) at offset i
MatchesAt(t, i, w) == \A k \in DOMAIN w : toLowerCase(At(t, i + k - 1)) = w[k]

\* a literal of a case-sensitive pattern at offset i
MatchesExactlyAt(t, i, w) == \A k \in DOMAIN w : At(t, i + k - 1) = w[k]

\* the offset after a greedy \s* starting at i
SkipSpaces(t, i) ==
    IF i >= Len(t) THEN i ELSE Least({k \in i..Len(t) : ~IsSpace(At(t, k))})

\* the offset after a greedy \w* starting at i
SkipWord(t, i) ==
    IF i >= Len(t) THEN i ELSE Least({k \in i..Len(t) : ~IsWordChar(At(t, k))})

\* text.indexOf(c, from): the first offset >= from holding c, or -1
IndexOf(t, c, from) ==
    LET hits == {k \in from..(Len(t) - 1) : At(t, k) = c} IN
    IF hits = {} THEN -1 ELSE Least(hits)

toLowerCaseWord(w) == [k \in DOMAIN w |-> toLowerCase(w[k])]
toUpperCaseWord(w) == [k \in DOMAIN w |-> toUpperCase(w[k])]

\* a suffix pattern such as /__c$/i
EndsWith(s, w) == Len(s) >= Len(w) /\ MatchesAt(s, Len(s) - Len(w), w)

(***************************************************************************)
(* AntiPatternAnalyzer: issues                                             *)
(***************************************************************************)
NoRange == <<>>

\* The values interpolated into a message template: method names (character
\* sequences, <<>> when the template has none), a DML verb and a loop type
\* (strings, "" when the template has none).
Msg(name1, name2, operation, loopType) ==
    [name1 |-> name1, name2 |-> name2, operation |-> operation, loopType |-> loopType]

NoMsg == Msg(<<>>, <<>>, "", "")

\* An AntiPatternIssue; related is relatedInfo.location (NoRange when absent).
Issue(type, message, range, related, relatedMessage) ==
    [type |-> type, message |-> message, range |-> range,
     related |-> related, relatedMessage |-> relatedMessage]

\* isInLoop with the loop's last line left out (a mutant of isInLoop)
isInLoop_ExclusiveEnd(line, loop) == line >= loop.startLine /\ line < loop.endLine

\* isInLoop (antiPatternAnalyzer.ts:532)
isInLoop(line, loop) == line >= loop.startLine /\ line <= loop.endLine

\* parsed.methods.find(m => m.name === name): index of the first match, 0 if none
FindMethod(methods, name) ==
    IF \E k \in DOMAIN methods : methods[k].name = name
    THEN CHOOSE k \in DOMAIN methods :
            /\ methods[k].name = name
            /\ \A j \in 1..(k - 1) : methods[j].name # name
    ELSE 0

CallRange(call) == <<call.line, call.startChar, call.line, call.endChar>>

\* The issue pushed for a transitively reached method (lines 165-179)
SOQLCalledIssue(method, calledMethod, loop, originalCall) ==
    Issue("SOQL_IN_LOOP_VIA_METHOD",
          Msg(originalCall.methodName, calledMethod.name, "", loop.type),
          CallRange(originalCall),
          <<calledMethod.startLine, calledMethod.startChar,
            calledMethod.startLine, calledMethod.startChar + Len(calledMethod.name)>>,
          Msg(calledMethod.name, method.name, "", ""))

\* (lines 289-306)
DMLCalledIssue(method, calledMethod, loop, originalCall) ==
    Issue("DML_IN_LOOP_VIA_METHOD",
          Msg(originalCall.methodName, calledMethod.name,
              calledMethod.containsDML[1].operation, loop.type),
          CallRange(originalCall),
          <<calledMethod.startLine, calledMethod.startChar,
            calledMethod.startLine, calledMethod.startChar + Len(calledMethod.name)>>,
          Msg(calledMethod.name, method.name, calledMethod.containsDML[1].operation, ""))

\* detectSOQLInCalledMethods, from the i-th element of callsMethodsNames on.
\* The visited Set is shared by reference, so it is returned with the issues.
RECURSIVE SOQLInCalledFrom(_, _, _, _, _, _)
SOQLInCalledFrom(p, method, loop, originalCall, vis, i) ==
    IF i > Len(method.callsMethodsNames)
    THEN [issues |-> <<>>, visited |-> vis]
    ELSE LET calledMethodName == method.callsMethodsNames[i] IN
         IF calledMethodName \in vis
         THEN SOQLInCalledFrom(p, method, loop, originalCall, vis, i + 1)
         ELSE LET vis1 == vis \cup {calledMethodName}
                  k == FindMethod(p.methods, calledMethodName)
              IN IF k = 0
                 THEN SOQLInCalledFrom(p, method, loop, originalCall, vis1, i + 1)
                 ELSE LET calledMethod == p.methods[k]
                          here == IF Len(calledMethod.containsSOQL) > 0
                                  THEN <<SOQLCalledIssue(method, calledMethod, loop, originalCall)>>
                                  ELSE <<>>
                          sub == SOQLInCalledFrom(p, calledMethod, loop, originalCall, vis1, 1)
                          rest == SOQLInCalledFrom(p, method, loop, originalCall,
                                                   sub.visited, i + 1)
                      IN [issues |-> here \o sub.issues \o rest.issues,
                          visited |-> rest.visited]

detectSOQLInCalledMethods(p, method, loop, originalCall, vis) ==
    SOQLInCalledFrom(p, method, loop, originalCall, vis, 1).issues

RECURSIVE DMLInCalledFrom(_, _, _, _, _, _)
DMLInCalledFrom(p, method, loop, originalCall, vis, i) ==
    IF i > Len(method.callsMethodsNames)
    THEN [issues |-> <<>>, visited |-> vis]
    ELSE LET calledMethodName == method.callsMethodsNames[i] IN
         IF calledMethodName \in vis
         THEN DMLInCalledFrom(p, method, loop, originalCall, vis, i + 1)
         ELSE LET vis1 == vis \cup {calledMethodName}
                  k == FindMethod(p.methods, calledMethodName)
              IN IF k = 0
                 THEN DMLInCalledFrom(p, method, loop, originalCall, vis1, i + 1)
                 ELSE LET calledMethod == p.methods[k]
                          here == IF Len(calledMethod.containsDML) > 0
                                  THEN <<DMLCalledIssue(method, calledMethod, loop, originalCall)>>
                                  ELSE <<>>
                          sub == DMLInCalledFrom(p, calledMethod, loop, originalCall, vis1, 1)
                          rest == DMLInCalledFrom(p, method, loop, originalCall,
                                                  sub.visited, i + 1)
                      IN [issues |-> here \o sub.issues \o rest.issues,
                          visited |-> rest.visited]

detectDMLInCalledMethods(p, method, loop, originalCall, vis) ==
    DMLInCalledFrom(p, method, loop, originalCall, vis, 1).issues

\* The issue pushed for the method named at the call site (lines 114-132)
SOQLViaIssue(method, loop, call) ==
    Issue("SOQL_IN_LOOP_VIA_METHOD",
          Msg(call.methodName, <<>>, "", loop.type),
          CallRange(call),
          <<method.containsSOQL[1].line + method.startLine, method.containsSOQL[1].startChar,
            method.containsSOQL[1].line + method.startLine, method.containsSOQL[1].endChar>>,
          Msg(call.methodName, <<>>, "", ""))

\* (lines 238-257)
DMLViaIssue(method, loop, call) ==
    Issue("DML_IN_LOOP_VIA_METHOD",
          Msg(call.methodName, <<>>, method.containsDML[1].operation, loop.type),
          CallRange(call),
          <<method.containsDML[1].line + method.startLine, method.containsDML[1].startChar,
            method.containsDML[1].line + method.startLine, method.containsDML[1].endChar>>,
          Msg(call.methodName, <<>>, method.containsDML[1].operation, ""))

\* Body of the for-loop of detectSOQLViaMethodCalls for one call
SOQLViaOneCall(p, loop, call) ==
    IF ~isInLoop(call.line, loop) THEN <<>>
    ELSE LET k == FindMethod(p.methods, call.methodName) IN
         IF k = 0 THEN <<>>
         ELSE LET method == p.methods[k] IN
              (IF Len(method.containsSOQL) > 0
               THEN <<SOQLViaIssue(method, loop, call)>> ELSE <<>>)
              \o detectSOQLInCalledMethods(p, method, loop, call, {method.name})

detectSOQLViaMethodCalls(p, loop) ==
    FlattenSeq([c \in DOMAIN p.methodCalls |-> SOQLViaOneCall(p, loop, p.methodCalls[c])])

DMLViaOneCall(p, loop, call) ==
    IF ~isInLoop(call.line, loop) THEN <<>>
    ELSE LET k == FindMethod(p.methods, call.methodName) IN
         IF k = 0 THEN <<>>
         ELSE LET method == p.methods[k] IN
              (IF Len(method.containsDML) > 0
               THEN <<DMLViaIssue(method, loop, call)>> ELSE <<>>)
              \o detectDMLInCalledMethods(p, method, loop, call, {method.name})

detectDMLViaMethodCalls(p, loop) ==
    FlattenSeq([c \in DOMAIN p.methodCalls |-> DMLViaOneCall(p, loop, p.methodCalls[c])])

\* detectSOQLInLoops (lines 68-93)
SOQLInLoopIssue(soql, loop) ==
    Issue("SOQL_IN_LOOP", Msg(<<>>, <<>>, "", loop.type),
          <<soql.line, soql.startChar, soql.endLine, soql.endChar>>, NoRange, NoMsg)

SOQLDirectInLoop(p, loop) ==
    FlattenSeq([q \in DOMAIN p.soqlQueries |->
        IF isInLoop(p.soqlQueries[q].line, loop)
        THEN <<SOQLInLoopIssue(p.soqlQueries[q], loop)>> ELSE <<>>])

detectSOQLInLoops(p, cfg) ==
    FlattenSeq([l \in DOMAIN p.loops |->
        SOQLDirectInLoop(p, p.loops[l])
        \o (IF cfg.followMethodCalls THEN detectSOQLViaMethodCalls(p, p.loops[l]) ELSE <<>>)])

\* detectDMLInLoops (lines 192-217)
DMLInLoopIssue(dml, loop) ==
    Issue("DML_IN_LOOP", Msg(<<>>, <<>>, dml.operation, loop.type),
          <<dml.line, dml.startChar, dml.line, dml.endChar>>, NoRange, NoMsg)

DMLDirectInLoop(p, loop) ==
    FlattenSeq([d \in DOMAIN p.dmlOperations |->
        IF isInLoop(p.dmlOperations[d].line, loop)
        THEN <<DMLInLoopIssue(p.dmlOperations[d], loop)>> ELSE <<>>])

detectDMLInLoops(p, cfg) ==
    FlattenSeq([l \in DOMAIN p.loops |->
        DMLDirectInLoop(p, p.loops[l])
        \o (IF cfg.followMethodCalls THEN detectDMLViaMethodCalls(p, p.loops[l]) ELSE <<>>)])

\* detectHardcodedIds (lines 318-333)
detectHardcodedIds(p) ==
    [h \in DOMAIN p.hardcodedIds |->
        Issue("HARDCODED_ID", Msg(p.hardcodedIds[h].id, <<>>, "", ""),
              <<p.hardcodedIds[h].line, p.hardcodedIds[h].startChar,
                p.hardcodedIds[h].line, p.hardcodedIds[h].endChar>>, NoRange, NoMsg)]

\* detectMissingLimits (lines 338-355)
detectMissingLimits(p) ==
    FlattenSeq([q \in DOMAIN p.soqlQueries |->
        IF ~p.soqlQueries[q].hasLimit
        THEN <<Issue("MISSING_LIMIT", NoMsg,
                     <<p.soqlQueries[q].line, p.soqlQueries[q].startChar,
                       p.soqlQueries[q].endLine, p.soqlQueries[q].endChar>>, NoRange, NoMsg)>>
        ELSE <<>>])

\* /\bFROM\s+RecordType\b/i.test(query) (line 365)
SelectsFromRecordType(query) ==
    \E i \in 0..(Len(query) - 1) :
        /\ IsWordBoundary(query, i)
        /\ MatchesAt(query, i, <<"f", "r", "o", "m">>)
        /\ IsSpace(At(query, i + 4))
        /\ LET j == SkipSpaces(query, i + 4) IN
           MatchesAt(query, j, <<"r", "e", "c", "o", "r", "d", "t", "y", "p", "e">>) /\ IsWordBoundary(query, j + 10)

\* detectRecordTypeQueries (lines 360-378)
detectRecordTypeQueries(p) ==
    FlattenSeq([q \in DOMAIN p.soqlQueries |->
        IF SelectsFromRecordType(p.soqlQueries[q].query)
        THEN <<Issue("RecordTypeQuery", NoMsg,
                     <<p.soqlQueries[q].line, p.soqlQueries[q].startChar,
                       p.soqlQueries[q].endLine, p.soqlQueries[q].endChar>>, NoRange, NoMsg)>>
        ELSE <<>>])

\* the range both non-bulkified detectors report (lines 405-408, 439-442)
MethodHeadRange(method) ==
    <<method.startLine, method.startChar,
      method.startLine, method.startChar + Len(method.name) + 20>>

\* the test without the comparison of the target (a mutant of PerformsDMLOn)
PerformsDMLOn_AnyTarget(method, param) == Len(method.containsDML) > 0

\* method.containsDML has an operation on the parameter (lines 400-401)
PerformsDMLOn(method, param) ==
    \E d \in DOMAIN method.containsDML : method.containsDML[d].targetVariable = param.name

\* detectSingleSObjectParameter (lines 383-416)
detectSingleSObjectParameter(p) ==
    FlattenSeq([m \in DOMAIN p.methods |->
        LET method == p.methods[m] IN
        IF Len(method.parameters) # 1 THEN <<>>
        ELSE LET param == method.parameters[1] IN
             IF ~param.isSObject \/ param.isCollection THEN <<>>
             ELSE IF PerformsDMLOn(method, param)
                  THEN <<Issue("SingleSObjectParameter", Msg(method.name, param.name, "", ""),
                               MethodHeadRange(method), NoRange, NoMsg)>>
                  ELSE <<>>])

\* annotations.some(a => a.name.toLowerCase() === 'invocablemethod') (lines 426-428)
hasInvocableMethod(method) ==
    \E a \in DOMAIN method.annotations :
        toLowerCaseWord(method.annotations[a].name) = <<"i", "n", "v", "o", "c", "a", "b", "l", "e", "m", "e", "t", "h", "o", "d">>

\* firstParam.isCollection && firstParam.type.toLowerCase().startsWith('list') (line 450)
IsListParameter(firstParam) ==
    firstParam.isCollection /\ MatchesAt(firstParam.type, 0, <<"l", "i", "s", "t">>)

\* detectNonBulkifiedInvocable (lines 421-463)
detectNonBulkifiedInvocable(p) ==
    FlattenSeq([m \in DOMAIN p.methods |->
        LET method == p.methods[m]
            issue == Issue("NonBulkifiedInvocable", Msg(method.name, <<>>, "", ""),
                           MethodHeadRange(method), NoRange, NoMsg)
        IN
        IF ~hasInvocableMethod(method) THEN <<>>
        ELSE IF Len(method.parameters) = 0 THEN <<issue>>
        ELSE IF ~IsListParameter(method.parameters[1]) THEN <<issue>>
        ELSE <<>>])

\* detectTriggerWithoutRecursionGuard (lines 468-504).  The message lists the
\* operations of containsDML, each once, in order of first occurrence.
RecursiveOperations == {"insert", "update", "upsert"}

\* a test that any event passes (a mutant of hasAfterEvent)
hasAfterEvent_AnyEvent(trigger) == Len(trigger.events) > 0

\* trigger.events.some(e => e.includes('after')) (line 481)
hasAfterEvent(trigger) ==
    \E e \in DOMAIN trigger.events :
        \E i \in 0..Len(trigger.events[e]) : MatchesExactlyAt(trigger.events[e], i, <<"a", "f", "t", "e", "r">>)

detectTriggerWithoutRecursionGuard(p) ==
    IF ~p.isTrigger \/ p.triggerInfo = <<>> THEN <<>>
    ELSE LET trigger == p.triggerInfo[1] IN
         IF /\ Len(trigger.containsDML) > 0
            /\ ~trigger.hasRecursionGuard
            /\ hasAfterEvent(trigger)
            /\ \E d \in DOMAIN trigger.containsDML :
                   trigger.containsDML[d].operation \in RecursiveOperations
         THEN <<Issue("TriggerWithoutRecursionGuard", Msg(trigger.name, <<>>, "", ""),
                      <<trigger.startLine, trigger.startChar,
                        trigger.startLine, trigger.startChar + Len(trigger.name) + 10>>,
                      NoRange, NoMsg)>>
         ELSE <<>>

\* this.config.maxNestingDepth || 3 (line 511): 0 stands for an option not set
DefaultNestingDepth == 3
maxDepth(cfg) == IF cfg.maxNestingDepth = 0 THEN DefaultNestingDepth ELSE cfg.maxNestingDepth

\* detectDeeplyNestedCode (lines 509-527)
detectDeeplyNestedCode(p, cfg) ==
    FlattenSeq([n \in DOMAIN p.deepNestings |->
        LET nesting == p.deepNestings[n] IN
        IF nesting.depth > maxDepth(cfg)
        THEN <<Issue("DeeplyNestedCode", Msg(<<>>, <<>>, nesting.blockType, ""),
                     <<nesting.line, nesting.startChar, nesting.line, nesting.endChar + 10>>,
                     NoRange, NoMsg)>>
        ELSE <<>>])

\* the names of the test file as written (a mutant of TestFieldNames)
TestFieldNames_AsWritten(testFile) ==
    {testFile.fieldReferences[k].fieldName : k \in DOMAIN testFile.fieldReferences}

\* testFields (lines 562-565)
TestFieldNames(testFile) ==
    {toLowerCaseWord(testFile.fieldReferences[k].fieldName) :
        k \in DOMAIN testFile.fieldReferences}

\* the references sourceFields keeps, in insertion order (lines 544-559): the
\* first reference of each lowercased name ending in __c
SourceFieldIndexes(sourceFile) ==
    LET refs == sourceFile.fieldReferences IN
    {k \in DOMAIN refs :
        /\ EndsWith(refs[k].fieldName, <<"_", "_", "c">>)
        /\ \A j \in 1..(k - 1) :
               toLowerCaseWord(refs[j].fieldName) # toLowerCaseWord(refs[k].fieldName)}

\* analyzeUntestedFields (lines 539-587).  A name ending in __c does not end
\* in __r, so the test of line 571 skips nothing.
analyzeUntestedFields(sourceFile, testFile) ==
    LET refs == sourceFile.fieldReferences
        kept == SourceFieldIndexes(sourceFile)
        testFields == TestFieldNames(testFile)
    IN  FlattenSeq([k \in DOMAIN refs |->
            IF k \in kept /\ toLowerCaseWord(refs[k].fieldName) \notin testFields
            THEN <<Issue("UNTESTED_FIELD", Msg(refs[k].fieldName, <<>>, "", ""),
                         <<refs[k].line, refs[k].startChar, refs[k].line, refs[k].endChar>>,
                         NoRange, NoMsg)>>
            ELSE <<>>])

\* analyze (lines 26-63), in the source's order.  An option that is not set
\* reads as false.
analyze(p, cfg) ==
    (IF cfg.detectSOQLInLoops THEN detectSOQLInLoops(p, cfg) ELSE <<>>)
    \o (IF cfg.detectDMLInLoops THEN detectDMLInLoops(p, cfg) ELSE <<>>)
    \o (IF cfg.detectHardcodedIds THEN detectHardcodedIds(p) ELSE <<>>)
    \o (IF cfg.detectMissingLimits THEN detectMissingLimits(p) ELSE <<>>)
    \o (IF cfg.detectRecordTypeQueries THEN detectRecordTypeQueries(p) ELSE <<>>)
    \o (IF cfg.detectNonBulkifiedMethods
        THEN detectSingleSObjectParameter(p) \o detectNonBulkifiedInvocable(p) ELSE <<>>)
    \o (IF cfg.detectTriggerRecursion THEN detectTriggerWithoutRecursionGuard(p) ELSE <<>>)
    \o (IF cfg.detectDeeplyNestedCode THEN detectDeeplyNestedCode(p, cfg) ELSE <<>>)

(***************************************************************************)
(* The via-call walk, one step at a time (specification SpecWalk).         *)
(* The input is a ParsedApexFile with one loop, one call site inside it    *)
(* and a method list whose callsMethodsNames form an arbitrary call graph. *)
(***************************************************************************)
MaxCalls == 2           \* longest callsMethodsNames list of the walk's inputs
MaxDepth == 6           \* cap on the recursion depth explored

NameA == <<"A">>
NameB == <<"B">>
NameC == <<"C">>

\* the names a method body may call; C has a definition in some files only
CalleeNames == {NameA, NameB, NameC}

MethodStartLine(name) ==
    CASE name = NameA -> 10 [] name = NameB -> 20 [] name = NameC -> 30 [] OTHER -> 40

SOQLFact(line) ==
    [query |-> <<"S">>, line |-> line, endLine |-> line,
     startChar |-> 4, endChar |-> 9, hasLimit |-> FALSE]

DMLFact(operation, line) ==
    [operation |-> operation, line |-> line, startChar |-> 4, endChar |-> 9,
     targetVariable |-> <<"a">>]

\* A MethodInfo as findMethods builds it (facts are relative to the body)
MethodInfo(name, calls, hasFacts) ==
    [name |-> name, startLine |-> MethodStartLine(name), startChar |-> 4,
     endLine |-> MethodStartLine(name) + 5, endChar |-> 5,
     containsSOQL |-> IF hasFacts THEN <<SOQLFact(1), SOQLFact(2)>> ELSE <<>>,
     containsDML |-> IF hasFacts THEN <<DMLFact("update", 2), DMLFact("insert", 1)>> ELSE <<>>,
     callsMethodsNames |-> calls, parameters |-> <<>>, annotations |-> <<>>]

EmptyParsed ==
    [loops |-> <<>>, soqlQueries |-> <<>>, dmlOperations |-> <<>>, methods |-> <<>>,
     methodCalls |-> <<>>, hardcodedIds |-> <<>>]

LoopInfo(type, startLine, startChar, endLine, endChar) ==
    [type |-> type, startLine |-> startLine, endLine |-> endLine,
     startChar |-> startChar, endChar |-> endChar]

MethodCallInfo(name, line, startChar, endChar) ==
    [methodName |-> name, line |-> line, startChar |-> startChar, endChar |-> endChar]

\* getConfig's defaults (extension.ts:111-123).  The options getConfig does
\* not set are undefined in the object it returns: the gates of analyze read
\* them as false, and maxNestingDepth (0 here) falls back to 3.
DefaultConfig ==
    [detectSOQLInLoops |-> TRUE, detectDMLInLoops |-> TRUE, detectHardcodedIds |-> TRUE,
     detectMissingLimits |-> FALSE, followMethodCalls |-> TRUE,
     detectUntestedFields |-> TRUE,
     detectRecordTypeQueries |-> FALSE, detectNonBulkifiedMethods |-> FALSE,
     detectTriggerRecursion |-> FALSE, detectDeeplyNestedCode |-> FALSE,
     maxNestingDepth |-> 0]

WalkLoop == LoopInfo("for", 1, 0, 3, 1)
WalkCall == MethodCallInfo(NameA, 2, 4, 6)

\* files defining A, B and C, and files defining A and B only (C unresolved)
WalkFiles ==
    {[EmptyParsed EXCEPT
        !.loops = <<WalkLoop>>,
        !.methodCalls = <<WalkCall>>,
        !.methods = <<MethodInfo(NameA, calls[NameA], facts[NameA]),
                      MethodInfo(NameB, calls[NameB], facts[NameB]),
                      MethodInfo(NameC, calls[NameC], facts[NameC])>>] :
     calls \in [CalleeNames -> DupFreeSeqs(CalleeNames, MaxCalls)],
     facts \in [CalleeNames -> BOOLEAN]}
    \cup
    {[EmptyParsed EXCEPT
        !.loops = <<WalkLoop>>,
        !.methodCalls = <<WalkCall>>,
        !.methods = <<MethodInfo(NameA, calls[NameA], facts[NameA]),
                      MethodInfo(NameB, calls[NameB], facts[NameB])>>] :
     calls \in [{NameA, NameB} -> DupFreeSeqs(CalleeNames, MaxCalls)],
     facts \in [{NameA, NameB} -> BOOLEAN]}

InitWalk ==
    /\ NoEditor
    /\ text = <<>>
    /\ parsed \in WalkFiles
    /\ config = DefaultConfig
    /\ issues = <<>>
    /\ pc = "call"
    /\ walk \in {[kind |-> k, loop |-> WalkLoop, originalCall |-> WalkCall] :
                 k \in {"SOQL", "DML"}}
    /\ stack = <<>>
    /\ visited = {}
    /\ expanded = <<>>
    /\ testParsed = <<>>

Top == stack[Len(stack)]
TopMethod == parsed.methods[Top.method]
TopName == TopMethod.callsMethodsNames[Top.i]
Advance == [stack EXCEPT ![Len(stack)].i = @ + 1]

Contains(method) ==
    IF walk.kind = "SOQL" THEN method.containsSOQL ELSE method.containsDML

\* detectSOQLViaMethodCalls / detectDMLViaMethodCalls: the loop body for the call
\* site, up to the call of detect*InCalledMethods with new Set([method.name])
WalkStart ==
    /\ pc = "call"
    /\ isInLoop(walk.originalCall.line, walk.loop)
    /\ LET k == FindMethod(parsed.methods, walk.originalCall.methodName) IN
        /\ k # 0
        /\ issues' = IF Len(Contains(parsed.methods[k])) > 0
                     THEN Append(issues,
                            IF walk.kind = "SOQL"
                            THEN SOQLViaIssue(parsed.methods[k], walk.loop, walk.originalCall)
                            ELSE DMLViaIssue(parsed.methods[k], walk.loop, walk.originalCall))
                     ELSE issues
        /\ visited' = {parsed.methods[k].name}
        /\ stack' = <<[method |-> k, i |-> 1]>>
        /\ expanded' = <<parsed.methods[k].name>>
    /\ pc' = "walk"
    /\ UNCHANGED <<text, parsed, testParsed, config, walk, editorVars>>

\* if (visited.has(calledMethodName)) continue;
WalkSkipVisited ==
    /\ pc = "walk"
    /\ Top.i <= Len(TopMethod.callsMethodsNames)
    /\ TopName \in visited
    /\ stack' = Advance
    /\ UNCHANGED <<text, parsed, testParsed, config, issues, pc, walk, visited, expanded, editorVars>>

\* visited.add(calledMethodName); if (!calledMethod) continue;
WalkUnresolved ==
    /\ pc = "walk"
    /\ Top.i <= Len(TopMethod.callsMethodsNames)
    /\ TopName \notin visited
    /\ FindMethod(parsed.methods, TopName) = 0
    /\ visited' = visited \cup {TopName}
    /\ stack' = Advance
    /\ UNCHANGED <<text, parsed, testParsed, config, issues, pc, walk, expanded, editorVars>>

\* WalkDescend without the visited.has() test (a mutant of WalkDescend)
WalkDescend_Revisit ==
    /\ pc = "walk"
    /\ Len(stack) < MaxDepth
    /\ Top.i <= Len(TopMethod.callsMethodsNames)
    /\ LET k == FindMethod(parsed.methods, TopName) IN
        /\ k # 0
        /\ issues' = issues
        /\ stack' = Append(Advance, [method |-> k, i |-> 1])
        /\ expanded' = Append(expanded, TopName)
    /\ visited' = visited \cup {TopName}
    /\ UNCHANGED <<text, parsed, testParsed, config, pc, walk, editorVars>>

\* visited.add(calledMethodName); push the issue; recurse into calledMethod
WalkDescend ==
    /\ pc = "walk"
    /\ Len(stack) < MaxDepth
    /\ Top.i <= Len(TopMethod.callsMethodsNames)
    /\ TopName \notin visited
    /\ LET k == FindMethod(parsed.methods, TopName) IN
        /\ k # 0
        /\ issues' = IF Len(Contains(parsed.methods[k])) > 0
                     THEN Append(issues,
                            IF walk.kind = "SOQL"
                            THEN SOQLCalledIssue(TopMethod, parsed.methods[k],
                                                 walk.loop, walk.originalCall)
                            ELSE DMLCalledIssue(TopMethod, parsed.methods[k],
                                                walk.loop, walk.originalCall))
                     ELSE issues
        /\ stack' = Append(Advance, [method |-> k, i |-> 1])
        /\ expanded' = Append(expanded, TopName)
    /\ visited' = visited \cup {TopName}
    /\ UNCHANGED <<text, parsed, testParsed, config, pc, walk, editorVars>>

\* the for-loop over callsMethodsNames is exhausted: return issues
WalkReturn ==
    /\ pc = "walk"
    /\ Top.i > Len(TopMethod.callsMethodsNames)
    /\ stack' = SubSeq(stack, 1, Len(stack) - 1)
    /\ pc' = IF Len(stack) = 1 THEN "done" ELSE "walk"
    /\ UNCHANGED <<text, parsed, testParsed, config, issues, walk, visited, expanded, editorVars>>

NextWalk == WalkStart \/ WalkSkipVisited \/ WalkUnresolved \/ WalkDescend \/ WalkReturn

\* The walk is synchronous code: it keeps running until it returns.
SpecWalk == InitWalk /\ [][NextWalk]_vars /\ WF_vars(NextWalk)

\* The step-by-step walk computes what the recursive operators compute.
WalkAgreesWithOperators ==
    pc = "done" =>
        issues = IF walk.kind = "SOQL"
                 THEN SOQLViaOneCall(parsed, walk.loop, walk.originalCall)
                 ELSE DMLViaOneCall(parsed, walk.loop, walk.originalCall)

(***************************************************************************)
(* analyze() applied to a ParsedApexFile (specification SpecAnalyze).      *)
(* The inputs are fact lists over a few source lines: any loops, any       *)
(* queries and data operations, and call sites with a two-method graph.    *)
(***************************************************************************)
MaxLoops == 2           \* most loops in an input of SpecAnalyze

Lines == 0..2
LoopTypes == {"for", "while"}

\* Sequences over the set S of length at most n
RECURSIVE SeqsUpTo(_, _)
SeqsUpTo(S, n) ==
    IF n = 0 THEN {<<>>}
    ELSE LET shorter == SeqsUpTo(S, n - 1)
         IN shorter \cup {Append(s, x) : s \in shorter, x \in S}

LoopChoices ==
    {LoopInfo("for", a, 0, b, 1) : a \in {0, 1}, b \in Lines} \cup
    {LoopInfo("while", 1, 4, 1, 9)}

LoopLists == {ls \in SeqsUpTo(LoopChoices, MaxLoops) :
                \A k \in DOMAIN ls : ls[k].startLine <= ls[k].endLine}

\* the k-th query of a file starts at its own column: match offsets are distinct
QueryAt(k, line, hasLimit) ==
    [query |-> <<"S">>, line |-> line, endLine |-> line,
     startChar |-> 10 * k, endChar |-> 10 * k + 5, hasLimit |-> hasLimit]

QueryLists ==
    {<<>>} \cup {<<QueryAt(1, a, FALSE)>> : a \in Lines}
           \cup {<<QueryAt(1, a, FALSE), QueryAt(2, b, TRUE)>> : a \in Lines, b \in Lines}

DMLAt(k, operation, line) ==
    [operation |-> operation, line |-> line, startChar |-> 10 * k + 50,
     endChar |-> 10 * k + 55, targetVariable |-> <<"a">>]

DMLLists ==
    {<<>>} \cup {<<DMLAt(1, "update", a)>> : a \in Lines}
           \cup {<<DMLAt(1, "insert", a), DMLAt(2, "delete", a)>> : a \in Lines}

CallLists ==
    {<<>>} \cup {<<MethodCallInfo(NameA, a, 4, 6)>> : a \in Lines}
           \cup {<<MethodCallInfo(NameC, 1, 4, 6), MethodCallInfo(NameB, 1, 8, 10)>>}

MethodLists ==
    {<<MethodInfo(NameA, callsA, factsA), MethodInfo(NameB, callsB, factsB)>> :
        callsA \in DupFreeSeqs({NameA, NameB}, MaxCalls),
        callsB \in {<<>>, <<NameA>>, <<NameC>>},
        factsA \in BOOLEAN, factsB \in BOOLEAN}

AnalyzeFiles ==
    {[EmptyParsed EXCEPT !.loops = ls, !.soqlQueries = qs, !.dmlOperations = ds] :
        ls \in LoopLists, qs \in QueryLists, ds \in DMLLists}
    \cup
    {[EmptyParsed EXCEPT !.loops = ls, !.methodCalls = cs, !.methods = ms] :
        ls \in LoopLists, cs \in CallLists, ms \in MethodLists}

Configs ==
    {DefaultConfig,
     [DefaultConfig EXCEPT !.followMethodCalls = FALSE, !.detectMissingLimits = TRUE],
     [DefaultConfig EXCEPT !.detectSOQLInLoops = FALSE, !.detectHardcodedIds = FALSE]}

InitAnalyze ==
    /\ NoEditor
    /\ text = <<>>
    /\ parsed \in AnalyzeFiles
    /\ config \in Configs
    /\ issues = <<>>
    /\ pc = "analyze"
    /\ walk = [kind |-> "", loop |-> WalkLoop, originalCall |-> WalkCall]
    /\ stack = <<>>
    /\ visited = {}
    /\ expanded = <<>>
    /\ testParsed = <<>>

\* let issues = analyzer.analyze(parsed)   (extension.ts:137-138)
Analyze ==
    /\ pc = "analyze"
    /\ issues' = analyze(parsed, config)
    /\ pc' = "analyzed"
    /\ UNCHANGED <<text, parsed, testParsed, config, walk, stack, visited, expanded, editorVars>>

NextAnalyze == Analyze

SpecAnalyze == InitAnalyze /\ [][NextAnalyze]_vars

(***************************************************************************)
(* C1: every via-call walk terminates, cycles in callsMethodsNames         *)
(* included: the visited set starts as {origin method name}, only grows,   *)
(* and no method name is expanded (recursed into) more than once.          *)
(***************************************************************************)
C1_WalkTerminates ==
    /\ [][pc = "call" => visited' = {walk.originalCall.methodName}]_vars
    /\ [][visited \subseteq visited']_vars
    /\ [](NoDup(expanded) /\ Range(expanded) \subseteq visited)
    /\ <>(pc = "done")

\* the names a method of the file calls (none when the file has no such method)
Calls(name) ==
    LET k == FindMethod(parsed.methods, name) IN
    IF k = 0 THEN <<>> ELSE parsed.methods[k].callsMethodsNames

\* a finished walk over a graph with direct and with mutual recursion
C1_Witness ==
    /\ pc = "done"
    /\ NameA \in Range(Calls(NameA))
    /\ NameB \in Range(Calls(NameA))
    /\ NameA \in Range(Calls(NameB))
    /\ NameC \in Range(Calls(NameB))
    /\ NameB \in Range(Calls(NameC))
    /\ expanded = <<NameA, NameB, NameC>>


(***************************************************************************)
(* C2: the issue list never holds the same (call site, resolved method)    *)
(* pair twice: no two via-call issues of one kind have the same call-site  *)
(* range and the same resolved method.                                     *)
(***************************************************************************)
IsViaCall(issue) == issue.type \in {"SOQL_IN_LOOP_VIA_METHOD", "DML_IN_LOOP_VIA_METHOD"}

\* the method an issue reports: the transitively reached one, else the callee
ResolvedMethod(issue) ==
    IF issue.message.name2 # <<>> THEN issue.message.name2 ELSE issue.message.name1

C2_NoDuplicateViaCall ==
    pc = "analyzed" =>
        \A i, j \in DOMAIN issues :
            (/\ i < j
             /\ IsViaCall(issues[i])
             /\ issues[i].type = issues[j].type
             /\ issues[i].range = issues[j].range)
            => ResolvedMethod(issues[i]) # ResolvedMethod(issues[j])

(***************************************************************************)
(* C3: with detectSOQLInLoops enabled there is exactly one SOQL-in-loop    *)
(* issue per (query, loop) pair with the query's start line inside the     *)
(* loop's [startLine, endLine], and none for any other pair: a query       *)
(* inside k loops yields k issues.                                         *)
(***************************************************************************)
QueryRange(q) == <<q.line, q.startChar, q.endLine, q.endChar>>

Quotes == {"\"", "'"}

\* getLineAndChar (lines 560-574): line counts the newlines before the
\* offset, char the characters after the last of them
getLineAndChar(t, offset) ==
    LET end == IF offset < Len(t) THEN offset ELSE Len(t)
        newlines == {k \in 0..(end - 1) : At(t, k) = "\n"}
        lineStart == IF newlines = {} THEN 0
                     ELSE (CHOOSE x \in newlines : \A y \in newlines : y <= x) + 1
    IN  [line |-> Cardinality(newlines), char |-> end - lineStart]

\* the flags every copy of the scanning loop starts from, with the loop
\* variable i
ScanFlags ==
    [i |-> 0, inString |-> FALSE, stringChar |-> "", inLineComment |-> FALSE,
     inBlockComment |-> FALSE]

\* isInStringOrComment (lines 585-618): the loop body at offset st.i
IsInStringOrCommentStep(t, st) ==
    LET char == At(t, st.i)
        nextChar == At(t, st.i + 1)
        prevChar == At(t, st.i - 1)
        s1 == [st EXCEPT !.i = @ + 1]
    IN
    IF char = "\n" THEN [s1 EXCEPT !.inLineComment = FALSE]
    ELSE IF ~st.inString /\ ~st.inBlockComment /\ char = "/" /\ nextChar = "/"
    THEN [s1 EXCEPT !.inLineComment = TRUE]
    ELSE IF ~st.inString /\ ~st.inLineComment /\ char = "/" /\ nextChar = "*"
    THEN [s1 EXCEPT !.inBlockComment = TRUE]
    ELSE IF st.inBlockComment /\ char = "*" /\ nextChar = "/"
    THEN [s1 EXCEPT !.inBlockComment = FALSE, !.i = @ + 1]
    ELSE IF ~st.inString /\ ~st.inLineComment /\ ~st.inBlockComment /\ char \in Quotes
    THEN [s1 EXCEPT !.inString = TRUE, !.stringChar = char]
    ELSE IF st.inString /\ char = st.stringChar /\ prevChar # "\\"
    THEN [s1 EXCEPT !.inString = FALSE]
    ELSE s1

\* isInStringOrComment: the iterations of the loop with lo <= i < hi
RECURSIVE IsInStringOrCommentLoop(_, _, _, _)
IsInStringOrCommentLoop(t, lo, hi, st) ==
    IF st.i >= hi \/ lo >= hi THEN st
    ELSE IF hi = lo + 1
    THEN (IF st.i = lo THEN IsInStringOrCommentStep(t, st) ELSE st)
    ELSE LET mid == (lo + hi) \div 2
             left == IsInStringOrCommentLoop(t, lo, mid, st)
         IN  IF left.i >= hi THEN left ELSE IsInStringOrCommentLoop(t, mid, hi, left)

\* isInStringOrComment (lines 579-621)
isInStringOrComment(t, offset) ==
    LET st == IsInStringOrCommentLoop(t, 0, offset, ScanFlags) IN
    st.inString \/ st.inLineComment \/ st.inBlockComment

\* /^for\s*\(/i on text.substring(i) (line 157)
ForHeadAt(t, i) ==
    MatchesAt(t, i, <<"f", "o", "r">>) /\ At(t, SkipSpaces(t, i + 3)) = "("

\* isForEachLoop (lines 192-196): /^for\s*\(\s*\w+\s+\w+\s*:/i
isForEachLoop(t, i) ==
    LET a == SkipSpaces(t, SkipSpaces(t, i + 3) + 1)
        b == SkipWord(t, a)
        c == SkipSpaces(t, b)
        d == SkipWord(t, c)
    IN  /\ ForHeadAt(t, i)
        /\ b > a /\ c > b /\ d > c
        /\ At(t, SkipSpaces(t, d)) = ":"

\* /^while\s*\(/i and not /^while\s*\([^)]*\)\s*;/i (line 167)
WhileHeadAt(t, i) ==
    LET open == SkipSpaces(t, i + 5)
        close == IndexOf(t, ")", open + 1)
    IN  /\ MatchesAt(t, i, <<"w", "h", "i", "l", "e">>)
        /\ At(t, open) = "("
        /\ ~(close # -1 /\ At(t, SkipSpaces(t, close + 1)) = ";")

\* /^do\s*\{/i (line 176)
DoHeadAt(t, i) ==
    MatchesAt(t, i, <<"d", "o">>) /\ At(t, SkipSpaces(t, i + 2)) = "{"

\* the loopStarts entry pushed at offset i, if a loop keyword starts there
\* (lines 153-183)
LoopStartsAt(t, i, st) ==
    LET type == IF ForHeadAt(t, i)
                THEN (IF isForEachLoop(t, i) THEN "for-each" ELSE "for")
                ELSE IF WhileHeadAt(t, i) THEN "while"
                ELSE IF DoHeadAt(t, i) THEN "do-while"
                ELSE ""
    IN  IF type = "" THEN <<>>
        ELSE <<[type |-> type, line |-> st.currentLine, char |-> st.currentChar,
                braceDepth |-> st.braceDepth]>>

\* the closing brace of findLoops (lines 133-150): the innermost pending
\* loop start recorded at the new depth becomes a LoopInfo
CloseBrace(st) ==
    LET depth == st.braceDepth - 1
        hits == {j \in DOMAIN st.loopStarts : st.loopStarts[j].braceDepth = depth}
    IN  IF hits = {} THEN [st EXCEPT !.braceDepth = depth]
        ELSE LET j == CHOOSE x \in hits : \A y \in hits : y <= x
                 loopStart == st.loopStarts[j]
             IN [st EXCEPT
                   !.braceDepth = depth,
                   !.loops = Append(@, [type |-> loopStart.type,
                                        startLine |-> loopStart.line,
                                        endLine |-> st.currentLine,
                                        startChar |-> loopStart.char,
                                        endChar |-> st.currentChar]),
                   !.loopStarts = SubSeq(@, 1, j - 1) \o SubSeq(@, j + 1, Len(@))]

\* findLoops (lines 84-184): the loop body at offset st.i
FindLoopsStep(t, st) ==
    LET char == At(t, st.i)
        nextChar == At(t, st.i + 1)
        prevChar == At(t, st.i - 1)
        s1 == [st EXCEPT !.i = @ + 1, !.currentChar = @ + 1]
        s2 == IF char = "{" THEN [s1 EXCEPT !.braceDepth = @ + 1]
              ELSE IF char = "}" THEN CloseBrace(s1)
              ELSE s1
    IN
    IF char = "\n"
    THEN [st EXCEPT !.i = @ + 1, !.currentLine = @ + 1, !.currentChar = 0,
                    !.inLineComment = FALSE]
    ELSE IF ~st.inString /\ ~st.inBlockComment /\ char = "/" /\ nextChar = "/"
    THEN [s1 EXCEPT !.inLineComment = TRUE]
    ELSE IF ~st.inString /\ ~st.inLineComment /\ char = "/" /\ nextChar = "*"
    THEN [s1 EXCEPT !.inBlockComment = TRUE]
    ELSE IF st.inBlockComment /\ char = "*" /\ nextChar = "/"
    THEN [s1 EXCEPT !.inBlockComment = FALSE, !.i = @ + 1]
    ELSE IF st.inLineComment \/ st.inBlockComment THEN s1
    ELSE IF ~st.inString /\ char \in Quotes
    THEN [s1 EXCEPT !.inString = TRUE, !.stringChar = char]
    ELSE IF st.inString /\ char = st.stringChar /\ prevChar # "\\"
    THEN [s1 EXCEPT !.inString = FALSE]
    ELSE IF st.inString THEN s1
    ELSE [s2 EXCEPT !.loopStarts = @ \o LoopStartsAt(t, st.i, s2)]

\* findLoops: the iterations of the loop with lo <= i < hi
RECURSIVE FindLoopsLoop(_, _, _, _)
FindLoopsLoop(t, lo, hi, st) ==
    IF st.i >= hi \/ lo >= hi THEN st
    ELSE IF hi = lo + 1
    THEN (IF st.i = lo THEN FindLoopsStep(t, st) ELSE st)
    ELSE LET mid == (lo + hi) \div 2
             left == FindLoopsLoop(t, lo, mid, st)
         IN  IF left.i >= hi THEN left ELSE FindLoopsLoop(t, mid, hi, left)

\* findLoops (lines 70-187)
findLoops(t) ==
    FindLoopsLoop(t, 0, Len(t),
                  [i |-> 0, inString |-> FALSE, stringChar |-> "",
                   inLineComment |-> FALSE, inBlockComment |-> FALSE, braceDepth |-> 0,
                   currentLine |-> 0, currentChar |-> 0, loopStarts |-> <<>>,
                   loops |-> <<>>]).loops

\* LIMIT and a blank with no integer asked for after them (a mutant of LimitAt)
LimitAt_NoOperand(query, i) ==
    /\ IsWordBoundary(query, i)
    /\ MatchesAt(query, i, <<"l", "i", "m", "i", "t">>)
    /\ IsSpace(At(query, i + 5))

\* /\bLIMIT\s+\d+/i (line 212) tried at offset i of the query
LimitAt(query, i) ==
    /\ IsWordBoundary(query, i)
    /\ MatchesAt(query, i, <<"l", "i", "m", "i", "t">>)
    /\ IsSpace(At(query, i + 5))
    /\ IsDigit(At(query, SkipSpaces(query, i + 5)))

\* /\bLIMIT\s+\d+/i.test(query)
hasLimit(query) == \E i \in 0..(Len(query) - 1) : LimitAt(query, i)

\* the first offset >= i where FROM\s+ matches, or -1
IndexOfFrom(t, i) ==
    LET hits == {k \in i..(Len(t) - 1) : MatchesAt(t, k, <<"f", "r", "o", "m">>) /\ IsSpace(At(t, k + 4))}
    IN  IF hits = {} THEN -1 ELSE Least(hits)

\* /\[\s*(SELECT\s+[\s\S]*?FROM\s+[\s\S]*?)\]/gi (line 205) tried at offset p:
\* the offsets of SELECT and of the closing bracket, close = -1 if no match
BracketQueryAt(t, p) ==
    LET select == SkipSpaces(t, p + 1)
        fields == SkipSpaces(t, select + 6)
        from == IndexOfFrom(t, fields)
        close == IF from = -1 THEN -1 ELSE IndexOf(t, "]", SkipSpaces(t, from + 4))
    IN  IF /\ At(t, p) = "["
           /\ MatchesAt(t, select, <<"s", "e", "l", "e", "c", "t">>)
           /\ fields > select + 6
        THEN [select |-> select, close |-> close]
        ELSE [select |-> select, close |-> -1]

\* the SOQLInfo of a bracket match (lines 209-221)
BracketQueryInfo(t, p, m) ==
    LET query == substring(t, m.select, m.close)
        startPosition == getLineAndChar(t, p)
        endPosition == getLineAndChar(t, m.close + 1)
    IN  [query |-> query, line |-> startPosition.line, endLine |-> endPosition.line,
         startChar |-> startPosition.char, endChar |-> endPosition.char,
         hasLimit |-> hasLimit(query)]

\* the exec loop over bracketPattern (lines 208-222) from lastIndex
RECURSIVE BracketQueriesFrom(_, _)
BracketQueriesFrom(t, lastIndex) ==
    LET hits == {p \in lastIndex..(Len(t) - 1) : BracketQueryAt(t, p).close # -1} IN
    IF hits = {} THEN <<>>
    ELSE LET p == Least(hits)
             m == BracketQueryAt(t, p)
         IN  <<BracketQueryInfo(t, p, m)>> \o BracketQueriesFrom(t, m.close + 1)

\* /Database\.query\s*\(/gi (line 225) tried at offset p: the match end or -1
DatabaseQueryAt(t, p) ==
    LET open == SkipSpaces(t, p + 14) IN
    IF MatchesAt(t, p, <<"d", "a", "t", "a", "b", "a", "s", "e", ".", "q", "u", "e", "r", "y">>) /\ At(t, open) = "(" THEN open + 1 ELSE -1

\* the exec loop over dbQueryPattern (lines 226-237) from lastIndex
RECURSIVE DatabaseQueriesFrom(_, _)
DatabaseQueriesFrom(t, lastIndex) ==
    LET hits == {p \in lastIndex..(Len(t) - 1) : DatabaseQueryAt(t, p) # -1} IN
    IF hits = {} THEN <<>>
    ELSE LET p == Least(hits)
             end == DatabaseQueryAt(t, p)
             position == getLineAndChar(t, p)
         IN  <<[query |-> <<"D", "a", "t", "a", "b", "a", "s", "e", ".", "q", "u", "e", "r",
                            "y", "(", ".", ".", ".", ")">>,
                line |-> position.line, endLine |-> position.line,
                startChar |-> position.char, endChar |-> position.char + (end - p),
                hasLimit |-> TRUE]>>
             \o DatabaseQueriesFrom(t, end)

\* findSOQLQueries (lines 201-240)
findSOQLQueries(t) == BracketQueriesFrom(t, 0) \o DatabaseQueriesFrom(t, 0)

\* dmlKeywords (line 247), each with its characters
dmlKeywords ==
    <<[operation |-> "insert", word |-> <<"i", "n", "s", "e", "r", "t">>],
      [operation |-> "update", word |-> <<"u", "p", "d", "a", "t", "e">>],
      [operation |-> "delete", word |-> <<"d", "e", "l", "e", "t", "e">>],
      [operation |-> "upsert", word |-> <<"u", "p", "s", "e", "r", "t">>],
      [operation |-> "merge", word |-> <<"m", "e", "r", "g", "e">>],
      [operation |-> "undelete", word |-> <<"u", "n", "d", "e", "l", "e", "t", "e">>]>>

\* /^(\w+)/ on the trimmed text that starts at offset from and ends before to:
\* the first word, <<>> for undefined
FirstWord(t, from, to) ==
    LET start == SkipSpaces(t, from) IN
    IF start >= to THEN <<>> ELSE substring(t, start, SkipWord(t, start))

\* \b(keyword)\s+([^;]+); (line 251) tried at offset p: the offset of the
\* terminating semicolon, or -1
StatementAt(t, p, word) ==
    LET after == p + Len(word)
        semi == IndexOf(t, ";", after)
    IN  IF /\ IsWordBoundary(t, p)
           /\ MatchesAt(t, p, word)
           /\ IsSpace(At(t, after))
           /\ semi >= after + 2
        THEN semi ELSE -1

\* the exec loop over the statement pattern (lines 254-281) from lastIndex
RECURSIVE StatementsFrom(_, _, _)
StatementsFrom(t, lastIndex, keyword) ==
    LET hits == {p \in lastIndex..(Len(t) - 1) : StatementAt(t, p, keyword.word) # -1} IN
    IF hits = {} THEN <<>>
    ELSE LET p == Least(hits)
             semi == StatementAt(t, p, keyword.word)
             position == getLineAndChar(t, p)
         IN
         IF IsWordChar(At(t, p - 1)) \/ isInStringOrComment(t, p)
         THEN StatementsFrom(t, semi + 1, keyword)
         ELSE <<[operation |-> keyword.operation, line |-> position.line,
                 startChar |-> position.char,
                 endChar |-> position.char + (semi + 1 - p),
                 targetVariable |-> FirstWord(t, p + Len(keyword.word), semi)]>>
              \o StatementsFrom(t, semi + 1, keyword)

\* Database\.keyword\s*\(([^)]+)\) (line 286) tried at offset p: the offsets
\* of the two parentheses, close = -1 if no match
DatabaseCallAt(t, p, word) ==
    LET open == SkipSpaces(t, p + 9 + Len(word))
        close == IndexOf(t, ")", open + 1)
    IN  IF /\ MatchesAt(t, p, <<"d", "a", "t", "a", "b", "a", "s", "e", ".">> \o word)
           /\ At(t, open) = "("
           /\ close >= open + 2
        THEN [open |-> open, close |-> close]
        ELSE [open |-> open, close |-> -1]

\* the exec loop over the Database pattern (lines 289-309) from lastIndex
RECURSIVE DatabaseCallsFrom(_, _, _)
DatabaseCallsFrom(t, lastIndex, keyword) ==
    LET hits == {p \in lastIndex..(Len(t) - 1) : DatabaseCallAt(t, p, keyword.word).close # -1}
    IN
    IF hits = {} THEN <<>>
    ELSE LET p == Least(hits)
             m == DatabaseCallAt(t, p, keyword.word)
             position == getLineAndChar(t, p)
         IN
         IF isInStringOrComment(t, p)
         THEN DatabaseCallsFrom(t, m.close + 1, keyword)
         ELSE <<[operation |-> keyword.operation, line |-> position.line,
                 startChar |-> position.char,
                 endChar |-> position.char + (m.close + 1 - p),
                 targetVariable |-> FirstWord(t, m.open + 1, m.close)]>>
              \o DatabaseCallsFrom(t, m.close + 1, keyword)

\* findDMLOperations (lines 245-313)
findDMLOperations(t) ==
    FlattenSeq([k \in DOMAIN dmlKeywords |-> StatementsFrom(t, 0, dmlKeywords[k])])
    \o FlattenSeq([k \in DOMAIN dmlKeywords |-> DatabaseCallsFrom(t, 0, dmlKeywords[k])])

\* the lengths of a record id (line 452)
ShortIdLength == 15
LongIdLength == 18

\* [a-zA-Z0-9]{n} at offset from
AlnumRun(t, from, n) == \A k \in 0..(n - 1) : IsAlnum(At(t, from + k))

\* /['"]([a-zA-Z0-9]{15}|[a-zA-Z0-9]{18})['"]/g (line 452) tried at offset p:
\* the length of the id matched, 0 if no match
HardcodedIdAt(t, p) ==
    IF At(t, p) \notin Quotes THEN 0
    ELSE IF AlnumRun(t, p + 1, ShortIdLength) /\ At(t, p + 1 + ShortIdLength) \in Quotes
    THEN ShortIdLength
    ELSE IF AlnumRun(t, p + 1, LongIdLength) /\ At(t, p + 1 + LongIdLength) \in Quotes
    THEN LongIdLength
    ELSE 0

\* [a-f0-9] with the i flag (line 470)
IsHexDigit(c) == toLowerCase(c) \in Digits \cup {"a", "b", "c", "d", "e", "f"}

\* the tests without the one for 15 hexadecimal digits (a mutant of SkipsId)
SkipsId_NoHexTest(id) ==
    \/ ~AlnumRun(id, 0, 3)
    \/ \A k \in DOMAIN id : IsDigit(id[k])

\* the tests that drop a match (lines 460-472)
SkipsId(id) ==
    \/ ~AlnumRun(id, 0, 3)
    \/ \A k \in DOMAIN id : IsDigit(id[k])
    \/ [k \in DOMAIN id |-> toLowerCase(id[k])] = <<"a", "b", "o", "r", "t", "e", "d", "j", "o", "b", "s", "u", "m", "m", "a", "r", "y">>
    \/ (Len(id) = ShortIdLength /\ \A k \in DOMAIN id : IsHexDigit(id[k]))

\* the exec loop of findHardcodedIds (lines 455-482) from lastIndex
RECURSIVE HardcodedIdsFrom(_, _)
HardcodedIdsFrom(t, lastIndex) ==
    LET hits == {p \in lastIndex..(Len(t) - 1) : HardcodedIdAt(t, p) # 0} IN
    IF hits = {} THEN <<>>
    ELSE LET p == Least(hits)
             n == HardcodedIdAt(t, p)
             id == substring(t, p + 1, p + 1 + n)
             position == getLineAndChar(t, p)
         IN
         IF SkipsId(id) THEN HardcodedIdsFrom(t, p + n + 2)
         ELSE <<[id |-> id, line |-> position.line, startChar |-> position.char,
                 endChar |-> position.char + n + 2]>>
              \o HardcodedIdsFrom(t, p + n + 2)

\* findHardcodedIds (lines 448-485)
findHardcodedIds(t) == HardcodedIdsFrom(t, 0)

\* findMatchingBrace (lines 499-552): the loop body at offset st.i; the
\* return inside the loop ends it with found set
FindMatchingBraceStep(t, st) ==
    LET char == At(t, st.i)
        nextChar == At(t, st.i + 1)
        prevChar == At(t, st.i - 1)
        s1 == [st EXCEPT !.i = @ + 1]
    IN
    IF char = "\n" THEN [s1 EXCEPT !.inLineComment = FALSE]
    ELSE IF ~st.inString /\ ~st.inBlockComment /\ char = "/" /\ nextChar = "/"
    THEN [s1 EXCEPT !.inLineComment = TRUE]
    ELSE IF ~st.inString /\ ~st.inLineComment /\ char = "/" /\ nextChar = "*"
    THEN [s1 EXCEPT !.inBlockComment = TRUE]
    ELSE IF st.inBlockComment /\ char = "*" /\ nextChar = "/"
    THEN [s1 EXCEPT !.inBlockComment = FALSE, !.i = @ + 1]
    ELSE IF st.inLineComment \/ st.inBlockComment THEN s1
    ELSE IF ~st.inString /\ char \in Quotes
    THEN [s1 EXCEPT !.inString = TRUE, !.stringChar = char]
    ELSE IF st.inString /\ char = st.stringChar /\ prevChar # "\\"
    THEN [s1 EXCEPT !.inString = FALSE]
    ELSE IF st.inString THEN s1
    ELSE IF char = "{" THEN [s1 EXCEPT !.depth = @ + 1]
    ELSE IF char = "}"
    THEN (IF st.depth = 1
          THEN [st EXCEPT !.depth = 0, !.found = st.i, !.i = Len(t)]
          ELSE [s1 EXCEPT !.depth = @ - 1])
    ELSE s1

\* findMatchingBrace: the iterations of the loop with lo <= i < hi
RECURSIVE FindMatchingBraceLoop(_, _, _, _)
FindMatchingBraceLoop(t, lo, hi, st) ==
    IF st.i >= hi \/ lo >= hi THEN st
    ELSE IF hi = lo + 1
    THEN (IF st.i = lo THEN FindMatchingBraceStep(t, st) ELSE st)
    ELSE LET mid == (lo + hi) \div 2
             left == FindMatchingBraceLoop(t, lo, mid, st)
         IN  IF left.i >= hi THEN left ELSE FindMatchingBraceLoop(t, mid, hi, left)

\* findMatchingBrace (lines 492-555)
findMatchingBrace(t, openBraceIndex) ==
    FindMatchingBraceLoop(t, openBraceIndex + 1, Len(t),
                          [i |-> openBraceIndex + 1, inString |-> FALSE,
                           stringChar |-> "", inLineComment |-> FALSE,
                           inBlockComment |-> FALSE, depth |-> 1, found |-> -1]).found

\* /(?:this\.)?(\w+)\s*\(/g (lines 383, 416) tried at offset p: the offsets
\* of the name and of the match end, end = -1 if no match
MethodCallAt(t, p) ==
    LET viaThis == SkipWord(t, p + 5)
        plain == SkipWord(t, p)
    IN  IF /\ MatchesExactlyAt(t, p, <<"t", "h", "i", "s", ".">>)
           /\ viaThis > p + 5
           /\ At(t, SkipSpaces(t, viaThis)) = "("
        THEN [nameStart |-> p + 5, nameEnd |-> viaThis, end |-> SkipSpaces(t, viaThis) + 1]
        ELSE IF plain > p /\ At(t, SkipSpaces(t, plain)) = "("
        THEN [nameStart |-> p, nameEnd |-> plain, end |-> SkipSpaces(t, plain) + 1]
        ELSE [nameStart |-> p, nameEnd |-> p, end |-> -1]

\* skipKeywords of findMethodCallsInText (line 391)
skipKeywordsInText ==
    {<<"i", "f">>, <<"f", "o", "r">>, <<"w", "h", "i", "l", "e">>, <<"s", "w", "i", "t", "c", "h">>, <<"c", "a", "t", "c", "h">>, <<"r", "e", "t", "u", "r", "n">>, <<"n", "e", "w">>, <<"t", "h", "r", "o", "w">>}

\* the SOQL keywords skipped by findMethodCallsInText (line 397)
skipSOQLKeywords ==
    {<<"S", "E", "L", "E", "C", "T">>, <<"F", "R", "O", "M">>, <<"W", "H", "E", "R", "E">>, <<"A", "N", "D">>, <<"O", "R">>, <<"L", "I", "M", "I", "T">>}

\* skipKeywords of findMethodCalls (line 424)
skipKeywords == skipKeywordsInText \cup {<<"c", "l", "a", "s", "s">>, <<"i", "n", "t", "e", "r", "f", "a", "c", "e">>}

\* the exec loop of findMethodCallsInText (lines 386-404) from lastIndex
RECURSIVE MethodCallsInTextFrom(_, _, _)
MethodCallsInTextFrom(t, lastIndex, calls) ==
    LET hits == {p \in lastIndex..(Len(t) - 1) : MethodCallAt(t, p).end # -1} IN
    IF hits = {} THEN calls
    ELSE LET m == MethodCallAt(t, Least(hits))
             methodName == substring(t, m.nameStart, m.nameEnd)
         IN
         IF \/ toLowerCaseWord(methodName) \in skipKeywordsInText
            \/ toUpperCaseWord(methodName) \in skipSOQLKeywords
            \/ methodName \in Range(calls)
         THEN MethodCallsInTextFrom(t, m.end, calls)
         ELSE MethodCallsInTextFrom(t, m.end, Append(calls, methodName))

\* findMethodCallsInText (lines 379-407)
findMethodCallsInText(t) == MethodCallsInTextFrom(t, 0, <<>>)

\* the exec loop of findMethodCalls (lines 419-441) from lastIndex
RECURSIVE MethodCallsFrom(_, _)
MethodCallsFrom(t, lastIndex) ==
    LET hits == {p \in lastIndex..(Len(t) - 1) : MethodCallAt(t, p).end # -1} IN
    IF hits = {} THEN <<>>
    ELSE LET p == Least(hits)
             m == MethodCallAt(t, p)
             methodName == substring(t, m.nameStart, m.nameEnd)
             position == getLineAndChar(t, p)
         IN
         IF toLowerCaseWord(methodName) \in skipKeywords \/ isInStringOrComment(t, p)
         THEN MethodCallsFrom(t, m.end)
         ELSE <<[methodName |-> methodName, line |-> position.line,
                 startChar |-> position.char,
                 endChar |-> position.char + (m.end - p)]>>
              \o MethodCallsFrom(t, m.end)

\* findMethodCalls (lines 412-443)
findMethodCalls(t) == MethodCallsFrom(t, 0)

\* one of the words followed by \s+ at offset p: the offset after the
\* blanks, or -1
KeywordThenSpace(t, p, words) ==
    LET hits == {w \in words : MatchesAt(t, p, w) /\ IsSpace(At(t, p + Len(w)))} IN
    IF hits = {} THEN -1
    ELSE SkipSpaces(t, p + Len(CHOOSE w \in hits : TRUE))

accessModifiers == {<<"p", "u", "b", "l", "i", "c">>, <<"p", "r", "i", "v", "a", "t", "e">>, <<"p", "r", "o", "t", "e", "c", "t", "e", "d">>, <<"g", "l", "o", "b", "a", "l">>}
otherModifiers == {<<"s", "t", "a", "t", "i", "c">>, <<"v", "i", "r", "t", "u", "a", "l">>, <<"a", "b", "s", "t", "r", "a", "c", "t">>, <<"o", "v", "e", "r", "r", "i", "d", "e">>}

\* the offset after a greedy [\w,\s]* starting at i
SkipTypeArguments(t, i) ==
    IF i >= Len(t) THEN i
    ELSE Least({k \in i..Len(t) :
                  ~(IsWordChar(At(t, k)) \/ IsSpace(At(t, k)) \/ At(t, k) = ",")})

NoMethodMatch == [nameStart |-> 0, nameEnd |-> 0, brace |-> -1]

\* (?:\w+(?:<[\w,\s]+>)?)\s+(\w+)\s*\(([^)]*)\)\s*\{ of methodPattern
\* (line 326) tried at offset q: the offsets of the name and of the opening
\* brace, brace = -1 if no match
MethodTailAt(t, q) ==
    LET typeEnd == SkipWord(t, q)
        arguments == SkipTypeArguments(t, typeEnd + 1)
        afterType == IF At(t, typeEnd) # "<" THEN typeEnd
                     ELSE IF arguments > typeEnd + 1 /\ At(t, arguments) = ">"
                     THEN arguments + 1
                     ELSE -1
        nameStart == SkipSpaces(t, afterType)
        nameEnd == SkipWord(t, nameStart)
        open == SkipSpaces(t, nameEnd)
        close == IndexOf(t, ")", open + 1)
        brace == SkipSpaces(t, close + 1)
    IN  IF /\ typeEnd > q
           /\ afterType # -1
           /\ nameStart > afterType
           /\ nameEnd > nameStart
           /\ At(t, open) = "("
           /\ close # -1
           /\ At(t, brace) = "{"
        THEN [nameStart |-> nameStart, nameEnd |-> nameEnd, brace |-> brace]
        ELSE NoMethodMatch

\* (?:(?:static|virtual|abstract|override)\s+)* and the rest of
\* methodPattern at offset q: the longest run of modifiers that lets the
\* rest match
RECURSIVE ModifiersThenTailAt(_, _)
ModifiersThenTailAt(t, q) ==
    LET next == KeywordThenSpace(t, q, otherModifiers)
        more == IF next = -1 THEN NoMethodMatch ELSE ModifiersThenTailAt(t, next)
    IN  IF more.brace # -1 THEN more ELSE MethodTailAt(t, q)

\* methodPattern (line 326) tried at offset p
MethodAt(t, p) ==
    LET next == KeywordThenSpace(t, p, accessModifiers)
        withAccess == IF next = -1 THEN NoMethodMatch ELSE ModifiersThenTailAt(t, next)
    IN  IF withAccess.brace # -1 THEN withAccess ELSE ModifiersThenTailAt(t, p)

(***************************************************************************)
(* Method parameters and annotations (apexParser.ts lines 880-1041)        *)
(***************************************************************************)
\* the greatest element of a non-empty set of offsets
Greatest(S) == CHOOSE x \in S : \A y \in S : y <= x

\* String.prototype.trim
trim(s) ==
    LET kept == {k \in 0..(Len(s) - 1) : ~IsSpace(At(s, k))} IN
    IF kept = {} THEN <<>> ELSE substring(s, Least(kept), Greatest(kept) + 1)

\* `.` of a regular expression matches every character of s
NoLineTerminator(s) == \A k \in DOMAIN s : s[k] \notin {"\n", "\r"}

\* STANDARD_SOBJECTS (lines 22-33)
STANDARD_SOBJECTS ==
    {<<"A", "c", "c", "o", "u", "n", "t">>, <<"C", "o", "n", "t", "a", "c", "t">>, <<"L", "e", "a", "d">>, <<"O", "p", "p", "o", "r", "t", "u", "n", "i", "t", "y">>, <<"C", "a", "s", "e">>, <<"T", "a", "s", "k">>, <<"E", "v", "e", "n", "t">>,
     <<"C", "a", "m", "p", "a", "i", "g", "n">>, <<"U", "s", "e", "r">>, <<"P", "r", "o", "f", "i", "l", "e">>, <<"U", "s", "e", "r", "R", "o", "l", "e">>, <<"G", "r", "o", "u", "p">>, <<"A", "s", "s", "e", "t">>, <<"C", "o", "n", "t", "r", "a", "c", "t">>,
     <<"O", "r", "d", "e", "r">>, <<"O", "r", "d", "e", "r", "I", "t", "e", "m">>, <<"P", "r", "o", "d", "u", "c", "t", "2">>, <<"P", "r", "i", "c", "e", "b", "o", "o", "k", "2">>, <<"P", "r", "i", "c", "e", "b", "o", "o", "k", "E", "n", "t", "r", "y">>,
     <<"Q", "u", "o", "t", "e">>, <<"Q", "u", "o", "t", "e", "L", "i", "n", "e", "I", "t", "e",
                                    "m">>, <<"S", "o", "l", "u", "t", "i", "o", "n">>, <<"C", "a", "m", "p", "a", "i", "g", "n", "M", "e", "m", "b", "e", "r">>,
     <<"O", "p", "p", "o", "r", "t", "u", "n", "i", "t", "y", "L", "i", "n", "e", "I", "t",
       "e", "m">>, <<"O", "p", "p", "o", "r", "t", "u", "n", "i", "t", "y", "C", "o", "n", "t",
                     "a", "c", "t", "R", "o", "l", "e">>, <<"A", "c", "c", "o", "u", "n", "t", "C", "o", "n", "t", "a", "c", "t", "R", "o", "l", "e">>,
     <<"C", "a", "s", "e", "C", "o", "m", "m", "e", "n", "t">>, <<"F", "e", "e", "d", "I", "t", "e", "m">>, <<"C", "o", "n", "t", "e", "n", "t", "D", "o", "c", "u", "m", "e", "n", "t">>, <<"C", "o", "n", "t", "e", "n", "t", "V", "e", "r", "s", "i", "o", "n">>,
     <<"A", "t", "t", "a", "c", "h", "m", "e", "n", "t">>, <<"N", "o", "t", "e">>, <<"D", "o", "c", "u", "m", "e", "n", "t">>, <<"E", "m", "a", "i", "l", "M", "e", "s", "s", "a", "g", "e">>, <<"E", "m", "a", "i", "l", "T", "e", "m", "p", "l", "a", "t", "e">>,
     <<"F", "o", "l", "d", "e", "r">>, <<"R", "e", "p", "o", "r", "t">>, <<"D", "a", "s", "h", "b", "o", "a", "r", "d">>, <<"R", "e", "c", "o", "r", "d", "T", "y", "p", "e">>, <<"B", "u", "s", "i", "n", "e", "s", "s", "H", "o", "u", "r", "s">>,
     <<"H", "o", "l", "i", "d", "a", "y">>, <<"P", "e", "r", "m", "i", "s", "s", "i", "o", "n", "S", "e", "t">>, <<"P", "e", "r", "m", "i", "s", "s", "i", "o", "n", "S", "e", "t", "A", "s", "s", "i", "g", "n", "m", "e", "n", "t">>, <<"S", "O", "b", "j", "e", "c", "t">>}

\* the suffixes of custom objects, custom metadata, platform events,
\* external objects and big objects (lines 892-893)
customObjectSuffixes == {<<"_", "_", "c">>, <<"_", "_", "m", "d", "t">>, <<"_", "_", "e">>, <<"_", "_", "x">>, <<"_", "_", "b">>}

\* isSObjectType (lines 881-898)
isSObjectType(typeName) ==
    LET angle == IndexOf(typeName, "<", 0)
        baseType == trim(IF angle = -1 THEN typeName ELSE substring(typeName, 0, angle))
    IN  \/ baseType \in STANDARD_SOBJECTS
        \/ \E suffix \in customObjectSuffixes : EndsWith(baseType, suffix)

\* \s*(.+)\s* matches the whole of region
CapturesSomething(region) ==
    /\ region # <<>>
    /\ NoLineTerminator(trim(region))
    /\ (trim(region) # <<>> \/ \E k \in DOMAIN region : region[k] \in {" ", "\t"})

NotACollection(typeStr) == [isCollection |-> FALSE, baseType |-> typeStr]

\* /^List\s*<\s*(.+)\s*>$/i and /^Set\s*<\s*(.+)\s*>$/i (lines 907, 913)
GenericCollection(s, word) ==
    LET open == SkipSpaces(s, Len(word))
        region == substring(s, open + 1, Len(s) - 1)
    IN  IF /\ MatchesAt(s, 0, word)
           /\ At(s, open) = "<"
           /\ At(s, Len(s) - 1) = ">"
           /\ CapturesSomething(region)
        THEN [isCollection |-> TRUE, baseType |-> trim(region)]
        ELSE NotACollection(s)

\* /^Map\s*<\s*[^,]+\s*,\s*(.+)\s*>$/i (line 919)
MapCollection(s) ==
    LET open == SkipSpaces(s, 3)
        comma == IndexOf(s, ",", open + 1)
        region == substring(s, comma + 1, Len(s) - 1)
    IN  IF /\ MatchesAt(s, 0, <<"m", "a", "p">>)
           /\ At(s, open) = "<"
           /\ comma > open + 1
           /\ At(s, Len(s) - 1) = ">"
           /\ CapturesSomething(region)
        THEN [isCollection |-> TRUE, baseType |-> trim(region)]
        ELSE NotACollection(s)

\* /^(.+)\[\s*\]$/ (line 925)
ArrayCollection(s) ==
    LET last == Len(s) - 1
        blanks == {k \in 0..last : \A j \in k..(last - 1) : IsSpace(At(s, j))}
        bracket == Least(blanks) - 1
    IN  IF /\ At(s, last) = "]"
           /\ At(s, bracket) = "["
           /\ bracket > 0
           /\ NoLineTerminator(substring(s, 0, bracket))
        THEN [isCollection |-> TRUE, baseType |-> trim(substring(s, 0, bracket))]
        ELSE NotACollection(s)

\* parseCollectionType (lines 903-930)
parseCollectionType(typeStr) ==
    LET trimmed == trim(typeStr) IN
    IF GenericCollection(trimmed, <<"l", "i", "s", "t">>).isCollection
    THEN GenericCollection(trimmed, <<"l", "i", "s", "t">>)
    ELSE IF GenericCollection(trimmed, <<"s", "e", "t">>).isCollection
    THEN GenericCollection(trimmed, <<"s", "e", "t">>)
    ELSE IF MapCollection(trimmed).isCollection THEN MapCollection(trimmed)
    ELSE IF ArrayCollection(trimmed).isCollection THEN ArrayCollection(trimmed)
    ELSE NotACollection(trimmed)

\* splitParameters (lines 935-963): the commas outside every <...>
ParameterCommas(s) ==
    {k \in 0..(Len(s) - 1) :
        /\ At(s, k) = ","
        /\ Cardinality({j \in 0..(k - 1) : At(s, j) = "<"})
           = Cardinality({j \in 0..(k - 1) : At(s, j) = ">"})}

\* the pieces of s from offset from on, cut at the offsets in cuts
RECURSIVE SplitAt(_, _, _)
SplitAt(s, cuts, from) ==
    LET later == {c \in cuts : c >= from} IN
    IF later = {} THEN <<substring(s, from, Len(s))>>
    ELSE <<substring(s, from, Least(later))>> \o SplitAt(s, cuts, Least(later) + 1)

NonEmpty(s) == s # <<>>

splitParameters(paramString) ==
    LET pieces == SplitAt(paramString, ParameterCommas(paramString), 0) IN
    SelectSeq([k \in DOMAIN pieces |-> trim(pieces[k])], NonEmpty)

NoParameterMatch == [typeStart |-> 0, typeEnd |-> -1, nameStart |-> 0]

\* (.+?)\s+(\w+)$ on param from offset from: the bounds of the type and the
\* offset of the name, typeEnd = -1 if no match
TypeAndNameFrom(param, from) ==
    LET n == Len(param)
        nameStart == Least({k \in from..n : \A j \in k..(n - 1) : IsWordChar(At(param, j))})
        typeEnd == Least({k \in from..nameStart :
                             \A j \in k..(nameStart - 1) : IsSpace(At(param, j))})
    IN  IF /\ nameStart < n
           /\ typeEnd < nameStart
           /\ typeEnd > from
           /\ NoLineTerminator(substring(param, from, typeEnd))
        THEN [typeStart |-> from, typeEnd |-> typeEnd, nameStart |-> nameStart]
        ELSE NoParameterMatch

\* /^(?:final\s+)?(.+?)\s+(\w+)$/ (line 974) on a trimmed parameter.  When
\* `final` and all the blanks after it leave a single word, the pattern
\* still matches with `final`, giving one of three or more blanks to the type.
ParameterMatch(param) ==
    LET afterFinal == IF MatchesExactlyAt(param, 0, <<"f", "i", "n", "a", "l">>) /\ IsSpace(At(param, 5))
                      THEN SkipSpaces(param, 5) ELSE -1
        withFinal == IF afterFinal = -1 THEN NoParameterMatch
                     ELSE TypeAndNameFrom(param, afterFinal)
    IN  IF withFinal.typeEnd # -1 THEN withFinal
        ELSE IF /\ afterFinal >= 8
                /\ afterFinal < Len(param)
                /\ SkipWord(param, afterFinal) = Len(param)
        THEN [typeStart |-> afterFinal - 2, typeEnd |-> afterFinal - 1,
              nameStart |-> afterFinal]
        ELSE TypeAndNameFrom(param, 0)

\* the MethodParameter of a piece of the parameter string (lines 975-987)
MethodParameterOf(param) ==
    LET m == ParameterMatch(param)
        fullType == trim(substring(param, m.typeStart, m.typeEnd))
        collection == parseCollectionType(fullType)
    IN  [name |-> substring(param, m.nameStart, Len(param)),
         type |-> fullType,
         baseType |-> collection.baseType,
         isCollection |-> collection.isCollection,
         isSObject |-> isSObjectType(collection.baseType)]

ParameterMatches(param) == ParameterMatch(param).typeEnd # -1

\* parseMethodParameters (lines 968-992)
parseMethodParameters(paramString) ==
    LET matching == SelectSeq(splitParameters(paramString), ParameterMatches) IN
    [k \in DOMAIN matching |-> MethodParameterOf(matching[k])]

\* the modifier words that let findMethodAnnotations look further up
\* (line 1034), each as the words it is made of
annotationModifiers ==
    {<<<<"p", "u", "b", "l", "i", "c">>>>, <<<<"p", "r", "i", "v", "a", "t", "e">>>>, <<<<"p", "r", "o", "t", "e", "c", "t", "e", "d">>>>, <<<<"g", "l", "o", "b", "a", "l">>>>, <<<<"s", "t", "a", "t", "i", "c">>>>,
     <<<<"v", "i", "r", "t", "u", "a", "l">>>>, <<<<"a", "b", "s", "t", "r", "a", "c", "t">>>>, <<<<"o", "v", "e", "r", "r", "i", "d", "e">>>>, <<<<"w", "i", "t", "h">>, <<"s", "h", "a", "r", "i", "n", "g">>>>,
     <<<<"w", "i", "t", "h", "o", "u", "t">>, <<"s", "h", "a", "r", "i", "n", "g">>>>, <<<<"i", "n", "h", "e", "r", "i", "t", "e", "d">>, <<"s", "h", "a", "r", "i", "n", "g">>>>}

\* /^(public|...|with\s+sharing|...)/ on a trimmed line
StartsWithModifier(line) ==
    \E words \in annotationModifiers :
        /\ MatchesExactlyAt(line, 0, words[1])
        /\ Len(words) = 2 =>
              /\ IsSpace(At(line, Len(words[1])))
              /\ MatchesExactlyAt(line, SkipSpaces(line, Len(words[1])), words[2])

\* /^@(\w+)(?:\s*\([^)]*\))?/ on a trimmed line: the length of the match,
\* 0 if no match
AnnotationLength(line) ==
    LET nameEnd == SkipWord(line, 1)
        open == SkipSpaces(line, nameEnd)
        close == IndexOf(line, ")", open + 1)
    IN  IF At(line, 0) # "@" \/ nameEnd = 1 THEN 0
        ELSE IF At(line, open) = "(" /\ close # -1 THEN close + 1
        ELSE nameEnd

\* the loop of findMethodAnnotations (lines 1009-1038) at the line of
\* textBefore that ends before offset end, and then upwards
RECURSIVE AnnotationsUpFrom(_, _)
AnnotationsUpFrom(t, end) ==
    LET newlines == {k \in 0..(end - 1) : At(t, k) = "\n"}
        start == IF newlines = {} THEN 0 ELSE Greatest(newlines) + 1
        raw == substring(t, start, end)
        line == trim(raw)
        above == IF start = 0 THEN <<>> ELSE AnnotationsUpFrom(t, start - 1)
        at == IndexOf(raw, "@", 0)
    IN  IF line = <<>> THEN above
        ELSE IF AnnotationLength(line) > 0
        THEN <<[name |-> substring(line, 1, SkipWord(line, 1)),
                line |-> getLineAndChar(t, start).line,
                startChar |-> at,
                endChar |-> at + AnnotationLength(line)]>> \o above
        ELSE IF StartsWithModifier(line) THEN above
        ELSE <<>>

\* findMethodAnnotations (lines 997-1041)
findMethodAnnotations(t, methodStartIndex) == AnnotationsUpFrom(t, methodStartIndex)

\* the MethodInfo of a match at p with its closing brace at methodEnd
\* (lines 342-370)
MethodInfoAt(t, p, m, methodEnd) ==
    LET startPosition == getLineAndChar(t, p)
        endPosition == getLineAndChar(t, methodEnd)
        methodBody == substring(t, m.brace, methodEnd + 1)
        open == SkipSpaces(t, m.nameEnd)
        paramString == substring(t, open + 1, IndexOf(t, ")", open + 1))
    IN  [name |-> substring(t, m.nameStart, m.nameEnd),
         startLine |-> startPosition.line, endLine |-> endPosition.line,
         startChar |-> startPosition.char, endChar |-> endPosition.char,
         containsSOQL |-> findSOQLQueries(methodBody),
         containsDML |-> findDMLOperations(methodBody),
         callsMethodsNames |-> findMethodCallsInText(methodBody),
         parameters |-> parseMethodParameters(paramString),
         annotations |-> findMethodAnnotations(t, p)]

\* the exec loop of findMethods (lines 329-371) from lastIndex
RECURSIVE MethodsFrom(_, _)
MethodsFrom(t, lastIndex) ==
    LET hits == {p \in lastIndex..(Len(t) - 1) : MethodAt(t, p).brace # -1} IN
    IF hits = {} THEN <<>>
    ELSE LET p == Least(hits)
             m == MethodAt(t, p)
             methodEnd == findMatchingBrace(t, m.brace)
         IN
         IF methodEnd = -1 THEN MethodsFrom(t, m.brace + 1)
         ELSE <<MethodInfoAt(t, p, m, methodEnd)>> \o MethodsFrom(t, m.brace + 1)

\* findMethods (lines 318-374)
findMethods(t) == MethodsFrom(t, 0)

\* the field count above which a query is skipped as a bulk select (line 737)
MaxSelectFields == 15

\* FROM\s+(\w+)([\s\S]*?)\] of soqlFieldPattern (line 725) tried at offset
\* f: the offset of the closing bracket, or -1
FromObjectAt(t, f) ==
    LET object == SkipSpaces(t, f + 4) IN
    IF MatchesAt(t, f, <<"f", "r", "o", "m">>) /\ object > f + 4 /\ IsWordChar(At(t, object))
    THEN IndexOf(t, "]", object + 1)
    ELSE -1

\* the first offset of the run of blanks that ends before offset f
SpaceRunStart(t, f) ==
    LET others == {k \in 0..(f - 1) : ~IsSpace(At(t, k))} IN
    IF others = {} THEN 0 ELSE (CHOOSE x \in others : \A y \in others : y <= x) + 1

\* /\[\s*SELECT\s+([\s\S]*?)\s+FROM\s+(\w+)([\s\S]*?)\]/gi (line 725) tried
\* at offset p: the bounds of the select clause and the offset of the
\* closing bracket, close = -1 if no match
SelectClauseAt(t, p) ==
    LET select == SkipSpaces(t, p + 1)
        fields == SkipSpaces(t, select + 6)
        froms == {f \in (fields + 1)..(Len(t) - 1) :
                     IsSpace(At(t, f - 1)) /\ FromObjectAt(t, f) # -1}
        from == Least(froms)
    IN  IF ~(At(t, p) = "[" /\ MatchesAt(t, select, <<"s", "e", "l", "e", "c", "t">>) /\ fields > select + 6)
        THEN [start |-> 0, end |-> 0, close |-> -1]
        ELSE IF froms # {}
        THEN [start |-> fields, end |-> SpaceRunStart(t, from),
              close |-> FromObjectAt(t, from)]
        ELSE IF fields >= select + 8
        THEN [start |-> fields, end |-> fields, close |-> FromObjectAt(t, fields)]
        ELSE [start |-> 0, end |-> 0, close |-> -1]

\* field.trim().split('.') and its last part (lines 734, 742-743) for the
\* piece of the select clause at offsets a..b-1: the bounds of actualField
ActualFieldOf(t, a, b) ==
    LET others == {k \in a..(b - 1) : ~IsSpace(At(t, k))}
        first == IF others = {} THEN b ELSE Least(others)
        last == IF others = {} THEN b
                ELSE (CHOOSE x \in others : \A y \in others : y <= x) + 1
        dots == {k \in first..(last - 1) : At(t, k) = "."}
    IN  IF dots = {} THEN <<first, last>>
        ELSE <<(CHOOSE x \in dots : \A y \in dots : y <= x) + 1, last>>

\* selectClause.split(','): the bounds of each piece
SelectPieces(t, start, end) ==
    LET commas == {k \in start..(end - 1) : At(t, k) = ","}
        cuts == commas \cup {start - 1, end}
    IN  {<<c[1] + 1, c[2]>> :
            c \in {c \in cuts \X cuts :
                      c[1] < c[2] /\ \A y \in cuts : ~(c[1] < y /\ y < c[2])}}

\* actualField.endsWith('__c') (line 746)
EndsWithCustomSuffix(field) ==
    Len(field) >= 3 /\ SubSeq(field, Len(field) - 2, Len(field)) = <<"_", "_", "c">>

\* new RegExp(`\\b${fieldName}\\b`, 'gi') (line 832) returns rather than
\* throws a SyntaxError: every parenthesis of the pattern is paired
RegExpCompiles(fieldName) ==
    LET opened(k) == Cardinality({j \in 1..k : fieldName[j] = "("})
        closed(k) == Cardinality({j \in 1..k : fieldName[j] = ")"})
    IN  /\ \A k \in DOMAIN fieldName : closed(k) <= opened(k)
        /\ closed(Len(fieldName)) = opened(Len(fieldName))

\* the select clause of a match reaches findFieldPosition with a field
\* name that new RegExp rejects (lines 734-761)
SelectClauseThrows(t, m) ==
    LET pieces == SelectPieces(t, m.start, m.end) IN
    /\ Cardinality(pieces) <= MaxSelectFields
    /\ \E piece \in pieces :
          LET bounds == ActualFieldOf(t, piece[1], piece[2])
              actualField == substring(t, bounds[1], bounds[2])
          IN  EndsWithCustomSuffix(actualField) /\ ~RegExpCompiles(actualField)

\* the exec loop over soqlFieldPattern (lines 727-787) from lastIndex: some
\* match throws
RECURSIVE FieldQueriesThrowFrom(_, _)
FieldQueriesThrowFrom(t, lastIndex) ==
    LET hits == {p \in lastIndex..(Len(t) - 1) : SelectClauseAt(t, p).close # -1} IN
    IF hits = {} THEN FALSE
    ELSE LET m == SelectClauseAt(t, Least(hits)) IN
         SelectClauseThrows(t, m) \/ FieldQueriesThrowFrom(t, m.close + 1)

\* findFieldReferences (lines 646-790) throws
findFieldReferencesThrows(t) == FieldQueriesThrowFrom(t, 0)

(***************************************************************************)
(* Deep nesting (apexParser.ts lines 1174-1328)                            *)
(***************************************************************************)
\* /^if\s*\(/i on text.substring(i) (line 1274)
IfHeadAt(t, i) ==
    MatchesAt(t, i, <<"i", "f">>) /\ At(t, SkipSpaces(t, i + 2)) = "("

\* /^else\s+if\s*\(/i or /^else\b/i (lines 1276-1281)
ElseHeadAt(t, i) ==
    /\ MatchesAt(t, i, <<"e", "l", "s", "e">>)
    /\ \/ IsSpace(At(t, i + 4)) /\ IfHeadAt(t, SkipSpaces(t, i + 4))
       \/ IsWordBoundary(t, i + 4)

\* /^try\s*\{/i (line 1291)
TryHeadAt(t, i) ==
    MatchesAt(t, i, <<"t", "r", "y">>) /\ At(t, SkipSpaces(t, i + 3)) = "{"

\* /^catch\s*\(/i or /^finally\s*\{/i (lines 1293-1298)
CatchOrFinallyHeadAt(t, i) ==
    \/ MatchesAt(t, i, <<"c", "a", "t", "c", "h">>) /\ At(t, SkipSpaces(t, i + 5)) = "("
    \/ MatchesAt(t, i, <<"f", "i", "n", "a", "l", "l", "y">>) /\ At(t, SkipSpaces(t, i + 7)) = "{"

\* /^switch\s+on\s+/i (line 1299)
SwitchHeadAt(t, i) ==
    /\ MatchesAt(t, i, <<"s", "w", "i", "t", "c", "h">>)
    /\ IsSpace(At(t, i + 6))
    /\ LET on == SkipSpaces(t, i + 6) IN
       MatchesAt(t, on, <<"o", "n">>) /\ IsSpace(At(t, on + 2))

\* blockType at offset i (lines 1270-1301), "" for null
blockTypeAt(t, i) ==
    IF IfHeadAt(t, i) THEN "if"
    ELSE IF ElseHeadAt(t, i) THEN ""
    ELSE IF ForHeadAt(t, i) THEN "for"
    ELSE IF MatchesAt(t, i, <<"w", "h", "i", "l", "e">>) /\ At(t, SkipSpaces(t, i + 5)) = "("
    THEN (IF WhileHeadAt(t, i) THEN "while" ELSE "")
    ELSE IF DoHeadAt(t, i) THEN "do-while"
    ELSE IF TryHeadAt(t, i) THEN "try"
    ELSE IF CatchOrFinallyHeadAt(t, i) THEN ""
    ELSE IF SwitchHeadAt(t, i) THEN "switch"
    ELSE ""

\* blockType.length (line 1320)
BlockTypeLength(blockType) ==
    CASE blockType = "if" -> 2 [] blockType = "for" -> 3 [] blockType = "while" -> 5
      [] blockType = "do-while" -> 8 [] blockType = "try" -> 3 [] blockType = "switch" -> 6

\* the depth above which findDeepNestings records a construct (line 1314)
ReportedNestingDepth == 3

\* controlStack after the pops of a while loop: the entries on top that pass
\* the test are removed (lines 1253-1257, 1264-1266)
PopWhile(controlStack, Popped(_)) ==
    LET kept == {k \in DOMAIN controlStack : ~Popped(controlStack[k])} IN
    IF kept = {} THEN <<>> ELSE SubSeq(controlStack, 1, Greatest(kept))

\* an opening brace that marks no control structure (a mutant of
\* NestingOpenBrace)
NestingOpenBrace_NoMark(st) == [st EXCEPT !.braceDepth = @ + 1]

\* char === '{' (lines 1242-1250)
NestingOpenBrace(st) ==
    LET pending == {j \in DOMAIN st.controlStack :
                       /\ ~st.controlStack[j].hasBrace
                       /\ st.controlStack[j].braceDepth = st.braceDepth}
    IN  [st EXCEPT !.braceDepth = @ + 1,
                   !.controlStack = IF pending = {} THEN @
                                    ELSE [@ EXCEPT ![Greatest(pending)].hasBrace = TRUE]]

\* char === '}' (lines 1251-1259)
NestingCloseBrace(st) ==
    LET ClosedHere(control) == control.hasBrace /\ control.braceDepth = st.braceDepth - 1 IN
    [st EXCEPT !.controlStack = PopWhile(@, ClosedHere), !.braceDepth = @ - 1]

\* char === ';' (lines 1262-1267)
NestingSemicolon(st) ==
    LET Braceless(control) == ~control.hasBrace IN
    [st EXCEPT !.controlStack = PopWhile(@, Braceless)]

\* if (blockType) { ... } (lines 1303-1324)
NestingPush(st, blockType) ==
    LET pushed == Append(st.controlStack,
                         [type |-> blockType, braceDepth |-> st.braceDepth, hasBrace |-> FALSE])
        nestingDepth == Len(pushed)
    IN  IF nestingDepth > ReportedNestingDepth /\ st.currentLine \notin st.reportedLines
        THEN [st EXCEPT !.controlStack = pushed,
                        !.reportedLines = @ \cup {st.currentLine},
                        !.deepNestings = Append(@,
                            [depth |-> nestingDepth, line |-> st.currentLine,
                             startChar |-> st.currentChar,
                             endChar |-> st.currentChar + BlockTypeLength(blockType),
                             blockType |-> blockType])]
        ELSE [st EXCEPT !.controlStack = pushed]

\* findDeepNestings (lines 1195-1325): the loop body at offset st.i
FindDeepNestingsStep(t, st) ==
    LET char == At(t, st.i)
        nextChar == At(t, st.i + 1)
        prevChar == At(t, st.i - 1)
        s1 == [st EXCEPT !.i = @ + 1, !.currentChar = @ + 1]
        s2 == IF char = "{" THEN NestingOpenBrace(s1)
              ELSE IF char = "}" THEN NestingCloseBrace(s1)
              ELSE s1
        s3 == IF char = ";" THEN NestingSemicolon(s2) ELSE s2
        blockType == blockTypeAt(t, st.i)
    IN
    IF char = "\n"
    THEN [st EXCEPT !.i = @ + 1, !.currentLine = @ + 1, !.currentChar = 0,
                    !.inLineComment = FALSE]
    ELSE IF ~st.inString /\ ~st.inBlockComment /\ char = "/" /\ nextChar = "/"
    THEN [s1 EXCEPT !.inLineComment = TRUE]
    ELSE IF ~st.inString /\ ~st.inLineComment /\ char = "/" /\ nextChar = "*"
    THEN [s1 EXCEPT !.inBlockComment = TRUE]
    ELSE IF st.inBlockComment /\ char = "*" /\ nextChar = "/"
    THEN [s1 EXCEPT !.inBlockComment = FALSE, !.i = @ + 1]
    ELSE IF st.inLineComment \/ st.inBlockComment THEN s1
    ELSE IF ~st.inString /\ char \in Quotes
    THEN [s1 EXCEPT !.inString = TRUE, !.stringChar = char]
    ELSE IF st.inString /\ char = st.stringChar /\ prevChar # "\\"
    THEN [s1 EXCEPT !.inString = FALSE]
    ELSE IF st.inString THEN s1
    ELSE IF blockType # "" THEN NestingPush(s3, blockType)
    ELSE s3

\* findDeepNestings: the iterations of the loop with lo <= i < hi
RECURSIVE FindDeepNestingsLoop(_, _, _, _)
FindDeepNestingsLoop(t, lo, hi, st) ==
    IF st.i >= hi \/ lo >= hi THEN st
    ELSE IF hi = lo + 1
    THEN (IF st.i = lo THEN FindDeepNestingsStep(t, st) ELSE st)
    ELSE LET mid == (lo + hi) \div 2
             left == FindDeepNestingsLoop(t, lo, mid, st)
         IN  IF left.i >= hi THEN left ELSE FindDeepNestingsLoop(t, mid, hi, left)

\* findDeepNestings (lines 1174-1328)
findDeepNestings(t) ==
    FindDeepNestingsLoop(t, 0, Len(t),
                         [i |-> 0, inString |-> FALSE, stringChar |-> "",
                          inLineComment |-> FALSE, inBlockComment |-> FALSE, braceDepth |-> 0,
                          currentLine |-> 0, currentChar |-> 0, controlStack |-> <<>>,
                          reportedLines |-> {}, deepNestings |-> <<>>]).deepNestings

(***************************************************************************)
(* A scan of one document (specification SpecScan): scanDocument reads the *)
(* configuration and the text, parses the text and analyzes the result.    *)
(* The documents are put together from the fragments below.                *)
(***************************************************************************)
MaxIdLength == 19       \* longest quoted value of the documents
MaxBlanks == 2          \* most blanks between LIMIT and its operand

Concat(pieces) == FlattenSeq(pieces)

\* n copies of the character c
Repeat(c, n) == [k \in 1..n |-> c]

\* loops to put a statement in: the text before and after the body
LoopWraps ==
    {<<<<"f", "o", "r", " ", "(", "A", "c", "c", "o", "u", "n", "t", " ", "a", " ", ":", " ",
         "a", "c", "c", "s", ")", " ", "{", "\n", " ", " ">>,
       <<"}", "\n">>>>,
     <<<<"w", "h", "i", "l", "e", " ", "(", "i", " ", "<", " ", "n", ")", " ", "{", "\n", " ",
         " ">>,
       <<"}", "\n">>>>,
     <<<<>>,
       <<>>>>}

\* what may stand before and after a statement
StatementContexts ==
    {<<<<>>,
       <<"\n">>>>,
     <<<<"/", "/", " ", "u", "p", "d", "a", "t", "e", " ", "t", "h", "e", " ", "a", "c", "c",
         "o", "u", "n", "t", "\n", " ", " ">>,
       <<"\n">>>>,
     <<<<"a", ".", "N", "a", "m", "e", " ", "=", " ", "'", "U", "p", "d", "a", "t", "e", "d",
         "'", ";", "\n", " ", " ">>,
       <<"\n">>>>,
     <<<<"/", "*", " ", "i", "n", "s", "e", "r", "t", " ", "t", "h", "e", "m", " ", "*", "/",
         " ">>,
       <<"\n">>>>,
     <<<<"/", "/", " ">>,
       <<"\n">>>>,
     <<<<"/", "*", " ">>,
       <<" ", "*", "/", "\n">>>>,
     <<<<"/", "*", "/", " ">>,
       <<" ", "*", "/", "\n">>>>,
     <<<<"S", "t", "r", "i", "n", "g", " ", "s", " ", "=", " ", "'">>,
       <<"'", ";", "\n">>>>,
     <<<<"S", "t", "r", "i", "n", "g", " ", "s", " ", "=", " ", "\"">>,
       <<"\"", ";", "\n">>>>,
     <<<<"S", "t", "r", "i", "n", "g", " ", "p", " ", "=", " ", "'", "C", ":", "\\", "\\", "'",
         ";", " ", "S", "t", "r", "i", "n", "g", " ", "s", " ", "=", " ", "'">>,
       <<"'", ";", " ", "/", "/", " ", "d", "o", "n", "'", "t", "\n">>>>}

Statements ==
    {<<"u", "p", "d", "a", "t", "e", " ", "a", ";">>,
     <<"i", "n", "s", "e", "r", "t", " ", "a", ";">>,
     <<"D", "a", "t", "a", "b", "a", "s", "e", ".", "u", "p", "d", "a", "t", "e", "(", "a",
       ")", ";">>,
     <<"u", "n", "d", "e", "l", "e", "t", "e", " ", "a", ",", " ", "b", ";">>}

StatementTexts ==
    {Concat(<<wrap[1], context[1], statement, context[2], wrap[2]>>) :
        wrap \in LoopWraps, context \in StatementContexts, statement \in Statements}

\* places to put a query in
QueryWraps ==
    {<<<<"f", "o", "r", " ", "(", "C", "o", "n", "t", "a", "c", "t", " ", "c", " ", ":", " ">>,
       <<")", " ", "{", "\n", " ", " ", "n", "+", "+", ";", "\n", "}", "\n">>>>,
     <<<<"f", "o", "r", " ", "(", "A", "c", "c", "o", "u", "n", "t", " ", "a", " ", ":", " ",
         "a", "c", "c", "s", ")", " ", "{", "\n", " ", " ", "x", " ", "=", " ">>,
       <<";", "\n", "}", "\n">>>>,
     <<<<"x", " ", "=", " ">>,
       <<";", "\n">>>>}

SelectLists ==
    {<<"I", "d">>,
     <<"I", "d", ",", " ", "N", "a", "m", "e", "_", "_", "c">>,
     <<"I", "d", ",", " ", "(", "S", "E", "L", "E", "C", "T", " ", "N", "a", "m", "e", "_",
       "_", "c", " ", "F", "R", "O", "M", " ", "C", "a", "s", "e", "s", ")">>}

LimitClauses ==
    {<<>>,
     <<" ", "L", "I", "M", "I", "T", " ", ":", "n">>,
     <<" ", "L", "I", "M", "I", "T", "1", "0">>,
     <<" ", "W", "H", "E", "R", "E", " ", "n", " ", "=", " ", "'", "N", "O", "L", "I", "M",
       "I", "T", " ", "1", "'">>,
     <<" ", "W", "H", "E", "R", "E", " ", "n", "_", "_", "c", " ", "=", " ", "'", "L", "I",
       "M", "I", "T", " ", "1", "'">>}
    \cup {Concat(<<limit, Repeat(blank, n), <<"1", "0">>>>) :
             limit \in {<<" ", "L", "I", "M", "I", "T">>, <<" ", "l", "i", "m", "i", "t">>, <<"_", "L", "I", "M", "I", "T">>}, blank \in {" ", "\n"},
             n \in 1..MaxBlanks}

Queries ==
    {Concat(<<<<"[", "S", "E", "L", "E", "C", "T", " ">>, select, <<" ", "F", "R", "O", "M", " ", "C", "o", "n", "t", "a", "c", "t">>, limit, <<"]">>>>) :
        select \in SelectLists, limit \in LimitClauses}
    \cup {<<"D", "a", "t", "a", "b", "a", "s", "e", ".", "q", "u", "e", "r", "y", "(", "q", ")">>,
          <<"[", "S", "E", "L", "E", "C", "T", " ", "I", "d", " ", "F", "R", "O", "M", " ",
            "R", "e", "c", "o", "r", "d", "T", "y", "p", "e", "]">>}

QueryTexts ==
    {Concat(<<wrap[1], query, wrap[2]>>) : wrap \in QueryWraps, query \in Queries}

\* method declarations, with and without their closing brace, and a loop
\* that calls one of them
MethodTexts ==
    {Concat(<<loop, first, second>>) :
        loop \in {<<"f", "o", "r", " ", "(", "A", " ", "a", " ", ":", " ", "a", "s", ")", " ",
                    "{", "\n", " ", " ", "f", "(", ")", ";", "\n", "}", "\n">>,
                  <<>>},
        first \in {<<"v", "o", "i", "d", " ", "f", "(", ")", " ", "{", "\n", " ", " ", "u",
                     "p", "d", "a", "t", "e", " ", "a", ";", "\n", "}", "\n">>,
                   <<"v", "o", "i", "d", " ", "f", "(", ")", " ", "{", "\n", " ", " ", "u",
                     "p", "d", "a", "t", "e", " ", "a", ";", "\n">>,
                   <<"p", "u", "b", "l", "i", "c", " ", "s", "t", "a", "t", "i", "c", " ", "v",
                     "o", "i", "d", " ", "f", "(", ")", " ", "{", "\n", " ", " ", "g", "(",
                     ")", ";", "\n", "}", "\n">>},
        second \in {<<>>,
                    <<"v", "o", "i", "d", " ", "g", "(", ")", " ", "{", " ", "i", "n", "s",
                      "e", "r", "t", " ", "b", ";", " ", "}", "\n">>,
                    <<"v", "o", "i", "d", " ", "g", "(", ")", " ", "{", " ", "s", " ", "=",
                      " ", "'", "}", "'", ";", "\n">>}}

\* quoted values: a run of one character with one other character in it
IdCharacters == {"0", "a", "G"}
OddCharacters == {"0", "1", "b", "F", "g", "Z", "_"}

QuotedValues ==
    {Concat(<<Repeat(c, k), <<odd>>, Repeat(c, n - k - 1)>>) :
        c \in IdCharacters, odd \in OddCharacters,
        n \in (ShortIdLength - 1)..MaxIdLength, k \in {7}}
    \cup {<<"0", "0", "1", "0", "0", "0", "0", "0", "0", "0", "0", "0", "0", "0", "1">>,
          <<"0", "0", "1", "0", "0", "0", "0", "0", "0", "0", "0", "0", "0", "0", "1", "A",
            "A", "A">>}

IdTexts ==
    {Concat(<<<<"I", "d", " ", "x", " ", "=", " ">>, <<quote>>, value, <<quote>>, <<";">>>>) :
        quote \in Quotes, value \in QuotedValues}
    \cup {<<"A", "c", "c", "o", "u", "n", "t", " ", "a", "c", "c", " ", "=", " ", "[", "S",
            "E", "L", "E", "C", "T", " ", "I", "d", " ", "F", "R", "O", "M", " ", "A", "c",
            "c", "o", "u", "n", "t", " ", "W", "H", "E", "R", "E", " ", "I", "d", " ", "=",
            " ", "'", "0", "0", "1", "0", "0", "0", "0", "0", "0", "0", "0", "0", "0", "0",
            "1", "'", "]", ";">>}

\* getConfig's defaults, and the missing-limit detector switched on
ScanConfigs == {DefaultConfig, [DefaultConfig EXCEPT !.detectMissingLimits = TRUE]}

ScanTexts == StatementTexts \cup QueryTexts \cup MethodTexts \cup IdTexts

\* parse (lines 49-65): the facts the analyzer reads
parse(t) ==
    [loops |-> findLoops(t), soqlQueries |-> findSOQLQueries(t),
     dmlOperations |-> findDMLOperations(t), methods |-> findMethods(t),
     methodCalls |-> findMethodCalls(t), hardcodedIds |-> findHardcodedIds(t),
     deepNestings |-> findDeepNestings(t)]

InitScan ==
    /\ NoEditor
    /\ text \in ScanTexts
    /\ config \in ScanConfigs
    /\ parsed = EmptyParsed
    /\ issues = <<>>
    /\ pc = "parse"
    /\ walk = [kind |-> "", loop |-> <<>>, originalCall |-> <<>>]
    /\ stack = <<>>
    /\ visited = {}
    /\ expanded = <<>>
    /\ testParsed = <<>>

\* const parsed = parser.parse() (extension.ts:133-134)
Parse ==
    /\ pc = "parse"
    /\ ~findFieldReferencesThrows(text)
    /\ parsed' = parse(text)
    /\ pc' = "analyze"
    /\ UNCHANGED <<text, testParsed, config, issues, walk, stack, visited, expanded, editorVars>>

\* parser.parse() throws: scanDocument has no handler, the scan ends
ParseThrows ==
    /\ pc = "parse"
    /\ findFieldReferencesThrows(text)
    /\ pc' = "threw"
    /\ UNCHANGED <<text, parsed, testParsed, config, issues, walk, stack, visited, expanded, editorVars>>

NextScan == Parse \/ ParseThrows \/ Analyze

SpecScan == InitScan /\ [][NextScan]_vars

(***************************************************************************)
(* Method declarations with annotations and parameters (specification      *)
(* SpecMethods): an annotation line or none, one declaration with a        *)
(* parameter list and a body, and a second declaration or none after it.   *)
(***************************************************************************)
AnnotationLines ==
    {<<>>,
     <<"@", "I", "n", "v", "o", "c", "a", "b", "l", "e", "M", "e", "t", "h", "o", "d", "\n">>,
     <<"@", "i", "n", "v", "o", "c", "a", "b", "l", "e", "m", "e", "t", "h", "o", "d", "(",
       "l", "a", "b", "e", "l", "=", "'", "R", "u", "n", "'", ")", "\n", " ", " ">>,
     <<"@", "A", "u", "r", "a", "E", "n", "a", "b", "l", "e", "d", "\n">>}

ParameterLists ==
    {<<>>,
     <<"A", "c", "c", "o", "u", "n", "t", " ", "a", "c", "c">>,
     <<"L", "i", "s", "t", "<", "A", "c", "c", "o", "u", "n", "t", ">", " ", "a", "c", "c">>,
     <<"S", "e", "t", "<", "A", "c", "c", "o", "u", "n", "t", ">", " ", "a", "c", "c">>,
     <<"A", "c", "c", "o", "u", "n", "t", "[", "]", " ", "a", "c", "c">>,
     <<"T", "h", "i", "n", "g", "_", "_", "c", " ", "a", "c", "c">>,
     <<"L", "i", "s", "t", "i", "n", "g", "_", "_", "c", "[", "]", " ", "a", "c", "c">>,
     <<"S", "t", "r", "i", "n", "g", " ", "a", "c", "c">>,
     <<"f", "i", "n", "a", "l", " ", "A", "c", "c", "o", "u", "n", "t", " ", "a", "c", "c">>,
     <<"A", "c", "c", "o", "u", "n", "t", " ", "a", "c", "c", ",", " ", "I", "d", " ", "x">>,
     <<"I", "d", " ", "x", ",", " ", "A", "c", "c", "o", "u", "n", "t", " ", "a", "c", "c">>}

MethodBodies ==
    {<<" ", "i", "n", "s", "e", "r", "t", " ", "a", "c", "c", ";", " ", "}">>,
     <<"\n", " ", " ", "i", "n", "s", "e", "r", "t", " ", "a", "c", "c", ";", "\n", " ", " ", "D", "a", "t", "a", "b",
       "a", "s", "e", ".", "u", "p", "d", "a", "t", "e", "(", "a", "c", "c", ")", ";", "\n", "}">>,
     <<" ", "i", "n", "s", "e", "r", "t", " ", "x", ";", " ", "g", "o", "(", "a", "c", "c",
       ")", ";", " ", "}">>}

FollowingMethods ==
    {<<>>,
     <<"\n", "p", "u", "b", "l", "i", "c", " ", "v", "o", "i", "d", " ", "h", "e", "l", "p", "e", "r", "(",
       "A", "c", "c", "o", "u", "n", "t", " ", "a", ")", " ", "{", " ", "}">>}

\* a text whose select list makes findFieldReferences throw
ThrowingText ==
    <<"x", " ", "=", " ", "[", "S", "E", "L", "E", "C", "T", " ", "I", "d", ",", " ", "(", "S",
      "E", "L", "E", "C", "T", " ", "N", "a", "m", "e", "_", "_", "c", " ", "F", "R", "O", "M",
      " ", "C", "a", "s", "e", "s", ")", " ", "F", "R", "O", "M", " ", "C", "o", "n", "t", "a",
      "c", "t", "]", ";", "\n">>

MethodFileTexts ==
    {Concat(<<annotation, <<"p", "u", "b", "l", "i", "c", " ", "s", "t", "a", "t", "i", "c",
                            " ", "v", "o", "i", "d", " ", "r", "u", "n", "(">>, parameters, <<")", " ", "{">>, body, following>>) :
        annotation \in AnnotationLines, parameters \in ParameterLists,
        body \in MethodBodies, following \in FollowingMethods}
    \cup {ThrowingText}

\* an analyzer constructed with the non-bulkified detectors on
MethodConfigs == {[DefaultConfig EXCEPT !.detectNonBulkifiedMethods = TRUE]}

InitMethods ==
    /\ NoEditor
    /\ text \in MethodFileTexts
    /\ config \in MethodConfigs
    /\ parsed = EmptyParsed
    /\ issues = <<>>
    /\ pc = "parse"
    /\ walk = [kind |-> "", loop |-> <<>>, originalCall |-> <<>>]
    /\ stack = <<>>
    /\ visited = {}
    /\ expanded = <<>>
    /\ testParsed = <<>>

SpecMethods == InitMethods /\ [][NextScan]_vars

(***************************************************************************)
(* The untested-field step of a scan (specification SpecFields): a source  *)
(* file and a companion test file given by their field references.         *)
(***************************************************************************)
MaxFieldRefs == 3       \* longest fieldReferences list of a source file
MaxTestRefs == 2        \* longest fieldReferences list of a test file

FieldNames ==
    {<<"A", "c", "c", "o", "u", "n", "t", "_", "B", "i", "l", "l", "i", "n", "g", "_", "C",
       "o", "u", "n", "t", "r", "y", "_", "_", "c">>,
     <<"a", "c", "c", "o", "u", "n", "t", "_", "b", "i", "l", "l", "i", "n", "g", "_", "c",
       "o", "u", "n", "t", "r", "y", "_", "_", "C">>,
     <<"S", "a", "l", "e", "s", "_", "R", "e", "g", "i", "o", "n", "_", "O", "v", "e", "r",
       "r", "i", "d", "e", "_", "_", "c">>,
     <<"N", "a", "m", "e">>}

\* the FieldReference of the k-th reference of a file, one reference a line
FieldReferenceAt(k, fieldName) ==
    [fieldName |-> fieldName, line |-> k, startChar |-> 4, endChar |-> 4 + Len(fieldName)]

FieldReferenceLists(n) ==
    {[k \in DOMAIN names |-> FieldReferenceAt(k, names[k])] : names \in SeqsUpTo(FieldNames, n)}

\* a ParsedApexFile that holds field references only
FieldsFile(refs, isTestClass, className) ==
    [loops |-> <<>>, soqlQueries |-> <<>>, dmlOperations |-> <<>>, methods |-> <<>>,
     methodCalls |-> <<>>, hardcodedIds |-> <<>>, fieldReferences |-> refs,
     isTestClass |-> isTestClass, className |-> className]

SourceFiles ==
    {FieldsFile(refs, FALSE, <<"B", "i", "l", "l", "i", "n", "g">>) : refs \in FieldReferenceLists(MaxFieldRefs)}
    \cup {FieldsFile(refs, isTestClass, className) :
             refs \in FieldReferenceLists(1),
             isTestClass \in BOOLEAN, className \in {<<>>, <<"B", "i", "l", "l", "i", "n", "g", "T", "e", "s", "t">>}}

TestFiles ==
    {FieldsFile(refs, TRUE, <<"B", "i", "l", "l", "i", "n", "g", "T", "e", "s", "t">>) : refs \in FieldReferenceLists(MaxTestRefs)}

FieldConfigs == {DefaultConfig, [DefaultConfig EXCEPT !.detectUntestedFields = FALSE]}

InitFields ==
    /\ NoEditor
    /\ text = <<>>
    /\ parsed \in SourceFiles
    /\ config \in FieldConfigs
    /\ issues = <<>>
    /\ pc = "analyze"
    /\ walk = [kind |-> "", loop |-> <<>>, originalCall |-> <<>>]
    /\ stack = <<>>
    /\ visited = {}
    /\ expanded = <<>>
    /\ testParsed = <<>>

\* const testClassParsed = await findAndParseTestClass(parsed.className)
\* (extension.ts:142-143): null when no companion file is found
FindAndParseTestClass ==
    /\ pc = "analyzed"
    /\ config.detectUntestedFields /\ ~parsed.isTestClass /\ parsed.className # <<>>
    /\ testParsed' \in {<<>>} \cup {<<testFile>> : testFile \in TestFiles}
    /\ pc' = "testClass"
    /\ UNCHANGED <<text, parsed, config, issues, walk, stack, visited, expanded, editorVars>>

\* issues = issues.concat(analyzer.analyzeUntestedFields(parsed, testClassParsed))
\* (extension.ts:144-147)
AnalyzeUntestedFields ==
    /\ pc = "testClass"
    /\ issues' = IF testParsed = <<>> THEN issues
                 ELSE issues \o analyzeUntestedFields(parsed, testParsed[1])
    /\ pc' = "scanned"
    /\ UNCHANGED <<text, parsed, testParsed, config, walk, stack, visited, expanded, editorVars>>

NextFields == Analyze \/ FindAndParseTestClass \/ AnalyzeUntestedFields

SpecFields == InitFields /\ [][NextFields]_vars

(***************************************************************************)
(* Nested control structures (specification SpecNesting): three to         *)
(* MaxNestedBlocks brace-delimited blocks inside one another, laid out one *)
(* header a line, with the brace on the line below, with a statement       *)
(* before every header, or all on one line, or one header a line in a      *)
(* method body.                                                            *)
(***************************************************************************)
MaxNestedBlocks == 5    \* deepest nesting of the documents
MaxThreshold == 4       \* greatest maxNestingDepth configured

NestingHeaders ==
    {<<<<"i", "f", " ", "(", "a", ")">>,
       <<"i", "f", " ", "(", "b", ")">>,
       <<"I", "F", " ", "(", "c", ")">>,
       <<"i", "f", "(", "d", ")">>,
       <<"i", "f", " ", "(", "e", ")">>,
       <<"i", "f", " ", "(", "f", ")">>>>,
     <<<<"f", "o", "r", " ", "(", "X", " ", "x", " ", ":", " ", "x", "s", ")">>,
       <<"w", "h", "i", "l", "e", " ", "(", "a", ")">>,
       <<"i", "f", " ", "(", "c", ")">>,
       <<"f", "o", "r", " ", "(", "Y", " ", "y", " ", ":", " ", "y", "s", ")">>,
       <<"i", "f", " ", "(", "e", ")">>,
       <<"w", "h", "i", "l", "e", " ", "(", "f", ")">>>>,
     <<<<"i", "f", " ", "(", "a", ")">>,
       <<"i", "f", " ", "(", "b", ")">>,
       <<"f", "o", "r", " ", "(", "I", "n", "t", "e", "g", "e", "r", " ", "i", " ", "=", " ",
         "0", ";", " ", "i", " ", "<", " ", "n", ";", " ", "i", "+", "+", ")">>,
       <<"i", "f", " ", "(", "d", ")">>,
       <<"i", "f", " ", "(", "e", ")">>,
       <<"i", "f", " ", "(", "f", ")">>>>}

NestingLayouts == {"lines", "braceBelow", "statements", "oneLine"}

OpenBlock(header, layout) ==
    CASE layout = "lines" -> header \o <<" ", "{", "\n">>
      [] layout = "braceBelow" -> header \o <<"\n", "{", "\n">>
      [] layout = "statements" -> <<"x", " ", "=", " ", "1", ";", "\n">> \o header \o <<" ", "{", "\n">>
      [] layout = "oneLine" -> header \o <<" ", "{", " ">>

CloseBlock(layout) == IF layout = "oneLine" THEN <<"}", " ">> ELSE <<"}", "\n">>

NestedBlocks(headers, n, layout) ==
    Concat([k \in 1..n |-> OpenBlock(headers[k], layout)]
           \o [k \in 1..n |-> CloseBlock(layout)])

NestingTexts ==
    {NestedBlocks(headers, n, layout) :
        headers \in NestingHeaders, n \in 3..MaxNestedBlocks, layout \in NestingLayouts}
    \cup {Concat(<<<<"v", "o", "i", "d", " ", "f", "(", ")", " ", "{", "\n">>,
                   NestedBlocks(headers, n, "lines"), <<"}", "\n">>>>) :
             headers \in NestingHeaders, n \in 3..MaxNestedBlocks}
    \cup {ThrowingText}

\* an analyzer constructed with the deep-nesting detector on and
\* maxNestingDepth not set (0) or set to 1..MaxThreshold
NestingConfigs ==
    {[DefaultConfig EXCEPT !.detectDeeplyNestedCode = TRUE, !.maxNestingDepth = n] :
        n \in 0..MaxThreshold}

InitNesting ==
    /\ NoEditor
    /\ text \in NestingTexts
    /\ config \in NestingConfigs
    /\ parsed = EmptyParsed
    /\ issues = <<>>
    /\ pc = "parse"
    /\ walk = [kind |-> "", loop |-> <<>>, originalCall |-> <<>>]
    /\ stack = <<>>
    /\ visited = {}
    /\ expanded = <<>>
    /\ testParsed = <<>>

SpecNesting == InitNesting /\ [][NextScan]_vars

(***************************************************************************)
(* analyze() applied to a trigger file (specification SpecTrigger): the    *)
(* TriggerInfo holds up to MaxEvents events, up to MaxTriggerDML data      *)
(* operations and a recursion guard or none.                               *)
(***************************************************************************)
MaxEvents == 2          \* longest events list of a trigger
MaxTriggerDML == 2      \* longest containsDML list of a trigger

TriggerEvents ==
    {<<"b", "e", "f", "o", "r", "e", " ", "i", "n", "s", "e", "r", "t">>,
     <<"a", "f", "t", "e", "r", " ", "i", "n", "s", "e", "r", "t">>,
     <<"a", "f", "t", "e", "r", " ", "u", "p", "d", "a", "t", "e">>,
     <<"b", "e", "f", "o", "r", "e", " ", "d", "e", "l", "e", "t", "e">>}

TriggerInfos ==
    {[name |-> <<"A", "c", "c", "o", "u", "n", "t", "T", "r", "i", "g", "g", "e", "r">>, objectName |-> <<"A", "c", "c", "o", "u", "n", "t">>, events |-> events,
      startLine |-> 0, endLine |-> 9, startChar |-> 0, endChar |-> 0,
      containsDML |-> [k \in DOMAIN operations |-> DMLFact(operations[k], k)],
      hasRecursionGuard |-> hasRecursionGuard] :
        events \in SeqsUpTo(TriggerEvents, MaxEvents) \ {<<>>},
        operations \in SeqsUpTo({dmlKeywords[k].operation : k \in DOMAIN dmlKeywords},
                                   MaxTriggerDML),
        hasRecursionGuard \in BOOLEAN}

\* a ParsedApexFile with its trigger facts: isTrigger is triggerInfo !== null
\* (apexParser.ts:61-62)
TriggerFile(triggerInfo) ==
    [loops |-> <<>>, soqlQueries |-> <<>>, dmlOperations |-> <<>>, methods |-> <<>>,
     methodCalls |-> <<>>, hardcodedIds |-> <<>>, deepNestings |-> <<>>,
     isTrigger |-> triggerInfo # <<>>, triggerInfo |-> triggerInfo]

TriggerFiles == {TriggerFile(<<>>)} \cup {TriggerFile(<<info>>) : info \in TriggerInfos}

\* an analyzer constructed with the trigger-recursion detector on
TriggerConfigs == {[DefaultConfig EXCEPT !.detectTriggerRecursion = TRUE]}

InitTrigger ==
    /\ NoEditor
    /\ text = <<>>
    /\ parsed \in TriggerFiles
    /\ config \in TriggerConfigs
    /\ issues = <<>>
    /\ pc = "analyze"
    /\ walk = [kind |-> "", loop |-> <<>>, originalCall |-> <<>>]
    /\ stack = <<>>
    /\ visited = {}
    /\ expanded = <<>>
    /\ testParsed = <<>>

SpecTrigger == InitTrigger /\ [][NextAnalyze]_vars

(***************************************************************************)
(* Methods called from a loop (specification SpecCalls): a loop that calls *)
(* f, the declaration of f with its opening brace on the line of the       *)
(* signature or on a later line, and a method g that f may call.           *)
(***************************************************************************)
CallingLoop ==
    <<"f", "o", "r", " ", "(", "A", " ", "a", " ", ":", " ", "a", "s", ")", " ", "{", "\n",
      " ", " ", "f", "(", ")", ";", "\n", "}", "\n">>

MethodHeaders(name) ==
    {Concat(<<<<"v", "o", "i", "d", " ">>, name, <<"(", ")", " ", "{", "\n">>>>),
     Concat(<<<<"v", "o", "i", "d", " ">>, name, <<"(", ")", "\n", "{", "\n">>>>),
     Concat(<<<<"p", "u", "b", "l", "i", "c", " ", "v", "o", "i", "d", " ">>, name, <<"(", "I", "n", "t", "e", "g", "e", "r", " ", "n", ",", "\n", " ", " ", " ", " ", "I", "n", "t", "e", "g", "e", "r", " ", "m", ")", " ", "{", "\n">>>>)}

CallerBodies ==
    {<<" ", " ", "u", "p", "d", "a", "t", "e", " ", "a", ";", "\n">>,
     <<" ", " ", "x", " ", "=", " ", "[", "S", "E", "L", "E", "C", "T", " ", "I", "d", " ",
       "F", "R", "O", "M", " ", "A", "]", ";", "\n">>,
     <<" ", " ", "g", "(", ")", ";", "\n">>,
     <<" ", " ", "x", " ", "=", " ", "1", ";", "\n", " ", " ", "u", "p", "d", "a", "t", "e",
       " ", "a", ";", "\n", " ", " ", "g", "(", ")", ";", "\n">>}

CalleeBodies ==
    {<<" ", " ", "i", "n", "s", "e", "r", "t", " ", "b", ";", "\n">>,
     <<" ", " ", "y", " ", "=", " ", "[", "S", "E", "L", "E", "C", "T", " ", "I", "d", " ",
       "F", "R", "O", "M", " ", "B", "]", ";", "\n">>}

CalledMethods ==
    {<<>>} \cup {Concat(<<header, body, <<"}", "\n">>>>) :
                    header \in MethodHeaders(<<"g">>), body \in CalleeBodies}

\* bodies with two data operations, or two queries, in either order
OrderedBodies ==
    {<<" ", " ", "u", "p", "d", "a", "t", "e", " ", "a", ";", "\n", " ", " ", "i", "n", "s",
       "e", "r", "t", " ", "b", ";", "\n">>,
     <<" ", " ", "i", "n", "s", "e", "r", "t", " ", "b", ";", "\n", " ", " ", "u", "p", "d",
       "a", "t", "e", " ", "a", ";", "\n">>,
     <<" ", " ", "D", "a", "t", "a", "b", "a", "s", "e", ".", "q", "u", "e", "r", "y", "(",
       "q", ")", ";", "\n", " ", " ", "x", " ", "=", " ", "[", "S", "E", "L", "E", "C", "T", " ",
       "I", "d", " ", "F", "R", "O", "M", " ", "A", "]", ";", "\n">>}

CallTexts ==
    {Concat(<<CallingLoop, header, body, <<"}", "\n">>, called>>) :
        header \in MethodHeaders(<<"f">>), body \in CallerBodies, called \in CalledMethods}
    \cup {Concat(<<CallingLoop, <<"v", "o", "i", "d", " ", "f", "(", ")", " ", "{", "\n">>, body,
                   <<"}", "\n">>>>) : body \in OrderedBodies}
    \cup {ThrowingText}

InitCalls ==
    /\ NoEditor
    /\ text \in CallTexts
    /\ config \in {DefaultConfig, [DefaultConfig EXCEPT !.followMethodCalls = FALSE]}
    /\ parsed = EmptyParsed
    /\ issues = <<>>
    /\ pc = "parse"
    /\ walk = [kind |-> "", loop |-> <<>>, originalCall |-> <<>>]
    /\ stack = <<>>
    /\ visited = {}
    /\ expanded = <<>>
    /\ testParsed = <<>>

SpecCalls == InitCalls /\ [][NextScan]_vars

(***************************************************************************)
(* Loops and what follows them (specification SpecLoops): a statement or a *)
(* loop at the top level, then a sibling block at the same brace depth.    *)
(***************************************************************************)
FirstStatements ==
    {<<"w", "a", "i", "t", "F", "o", "r", "(", "x", ")", ";", "\n">>,
     <<"c", "h", "e", "c", "k", "F", "o", "r", " ", "(", "x", ")", ";", "\n">>,
     <<"x", " ", "=", " ", "1", ";", "\n">>,
     <<"f", "o", "r", " ", "(", "A", " ", "a", " ", ":", " ", "a", "s", ")", " ", "i", "n",
       "s", "e", "r", "t", " ", "a", ";", "\n">>,
     <<"w", "h", "i", "l", "e", " ", "(", "i", " ", "<", " ", "n", ")", " ", "i", "+", "+",
       ";", "\n">>,
     <<"f", "o", "r", " ", "(", "A", " ", "a", " ", ":", " ", "a", "s", ")", " ", "{", "\n",
       " ", " ", "i", "n", "s", "e", "r", "t", " ", "a", ";", "\n", "}", "\n">>,
     <<"w", "h", "i", "l", "e", " ", "(", "i", " ", "<", " ", "n", ")", " ", "{", "\n", " ",
       " ", "i", "n", "s", "e", "r", "t", " ", "a", ";", "\n", "}", "\n">>,
     <<"d", "o", " ", "{", "\n", " ", " ", "i", "n", "s", "e", "r", "t", " ", "a", ";", "\n",
       "}", " ", "w", "h", "i", "l", "e", " ", "(", "i", " ", "<", " ", "n", ")", ";", "\n">>,
     <<"d", "o", " ", "{", "\n", " ", " ", "i", "n", "s", "e", "r", "t", " ", "a", ";", "\n",
       "}", " ", "w", "h", "i", "l", "e", " ", "(", "a", ".", "s", "i", "z", "e", "(", ")",
       " ", ">", " ", "0", ")", ";", "\n">>,
     <<"d", "o", " ", "{", "\n", " ", " ", "i", "n", "s", "e", "r", "t", " ", "a", ";", "\n",
       "}", " ", "w", "h", "i", "l", "e", " ", "(", "(", "i", " ", "+", " ", "1", ")", " ",
       "<", " ", "n", ")", ";", "\n">>}

SiblingBlocks ==
    {<<>>,
     <<"i", "f", " ", "(", "c", ")", " ", "{", "\n", " ", " ", "u", "p", "d", "a", "t", "e",
       " ", "b", ";", "\n", "}", "\n">>,
     <<"i", "f", " ", "(", "c", ")", " ", "{", "\n", " ", " ", "y", " ", "=", " ", "[", "S",
       "E", "L", "E", "C", "T", " ", "I", "d", " ", "F", "R", "O", "M", " ", "B", "]", ";",
       "\n", "}", "\n">>}

LoopTexts ==
    {first \o block : first \in FirstStatements, block \in SiblingBlocks} \cup {ThrowingText}

InitLoops ==
    /\ NoEditor
    /\ text \in LoopTexts
    /\ config \in ScanConfigs
    /\ parsed = EmptyParsed
    /\ issues = <<>>
    /\ pc = "parse"
    /\ walk = [kind |-> "", loop |-> <<>>, originalCall |-> <<>>]
    /\ stack = <<>>
    /\ visited = {}
    /\ expanded = <<>>
    /\ testParsed = <<>>

SpecLoops == InitLoops /\ [][NextScan]_vars

(***************************************************************************)
(* Strings and comments left open (specification SpecLiterals): an opening *)
(* delimiter, then text holding other delimiters, then a statement.        *)
(***************************************************************************)
Openers ==
    {<<>>,
     <<"s", " ", "=", " ", "'">>,
     <<"s", " ", "=", " ", "\"">>,
     <<"/", "/", " ">>,
     <<"/", "*", " ">>,
     <<"/", "*", "/", " ">>}

Middles ==
    {<<"a">>,
     <<"/", "/", " ", "x">>,
     <<"/", "*", " ", "x">>,
     <<"i", "t", "'", "s">>,
     <<"\"", "x", "\"">>,
     <<" ", "*", "/", " ">>,
     <<"'", ";">>}

Tails ==
    {<<" ", "i", "n", "s", "e", "r", "t", " ", "a", ";">>,
     <<"\n", "i", "n", "s", "e", "r", "t", " ", "a", ";", "\n">>}

LiteralTexts ==
    {opener \o middle \o tail : opener \in Openers, middle \in Middles, tail \in Tails}
    \cup {ThrowingText}

InitLiterals ==
    /\ NoEditor
    /\ text \in LiteralTexts
    /\ config \in ScanConfigs
    /\ parsed = EmptyParsed
    /\ issues = <<>>
    /\ pc = "parse"
    /\ walk = [kind |-> "", loop |-> <<>>, originalCall |-> <<>>]
    /\ stack = <<>>
    /\ visited = {}
    /\ expanded = <<>>
    /\ testParsed = <<>>

SpecLiterals == InitLiterals /\ [][NextScan]_vars

(***************************************************************************)
(* The extension's event handlers (specification SpecExtension): edits and *)
(* saves of open documents, the debounce timeout of real-time scanning,    *)
(* and scanDocument calls suspended in the companion test-class lookup.    *)
(***************************************************************************)
MaxEdits == 2       \* edits made in a run
MaxScans == 2       \* scanDocument calls started in a run

Uris == {"doc1", "doc2"}

BillingName == <<"B", "i", "l", "l", "i", "n", "g">>
CountryField == <<"A", "c", "c", "o", "u", "n", "t", "_", "B", "i", "l", "l", "i", "n", "g",
                  "_", "C", "o", "u", "n", "t", "r", "y", "_", "_", "c">>
RegionField == <<"S", "a", "l", "e", "s", "_", "R", "e", "g", "i", "o", "n", "_", "O", "v",
                 "e", "r", "r", "i", "d", "e", "_", "_", "c">>

\* a ParsedApexFile of a document: field references, and a query in a loop
\* when inLoop
EditorFile(names, isTestClass, className, inLoop) ==
    [FieldsFile([k \in DOMAIN names |-> FieldReferenceAt(k + 3, names[k])], isTestClass, className)
        EXCEPT !.loops = IF inLoop THEN <<LoopInfo("for", 1, 0, 3, 1)>> ELSE <<>>,
               !.soqlQueries = IF inLoop THEN <<SOQLFact(2)>> ELSE <<>>]

\* the content every document opens with
BillingFile == EditorFile(<<CountryField, RegionField>>, FALSE, BillingName, TRUE)

\* the contents an open document takes
EditorFiles ==
    {BillingFile,
     EditorFile(<<RegionField>>, FALSE, BillingName, FALSE),
     EditorFile(<<CountryField>>, TRUE, BillingName, TRUE),
     EditorFile(<<CountryField>>, FALSE, <<>>, FALSE)}

\* the four file names findAndParseTestClass tries (extension.ts:163-168)
testClassPatterns(className) ==
    <<className \o <<"T", "e", "s", "t", ".", "c", "l", "s">>,
      className \o <<"_", "T", "e", "s", "t", ".", "c", "l", "s">>,
      <<"T", "e", "s", "t">> \o className \o <<".", "c", "l", "s">>,
      className \o <<"T", "e", "s", "t", "s", ".", "c", "l", "s">>>>

\* a file of the workspace; opens is false when openTextDocument or the
\* parse of its text throws
WorkspaceFile(name, opens, names) ==
    [name |-> name, opens |-> opens,
     parsed |-> FieldsFile([k \in DOMAIN names |-> FieldReferenceAt(k, names[k])], TRUE, name)]

\* the k-th companion candidate of Billing, each with references of its own
CompanionNames == <<<<>>, <<CountryField>>, <<RegionField>>, <<CountryField, RegionField>>>>

CompanionFiles(k) ==
    {WorkspaceFile(testClassPatterns(BillingName)[k], opens, CompanionNames[k]) : opens \in BOOLEAN}

\* the k-th candidate is absent, or present and opening or not
CompanionChoices(k) == {{}} \cup {{file} : file \in CompanionFiles(k)}

\* workspaces holding at most one file of each candidate name
Workspaces ==
    {c1 \cup c2 \cup c3 \cup c4 :
        c1 \in CompanionChoices(1), c2 \in CompanionChoices(2),
        c3 \in CompanionChoices(3), c4 \in CompanionChoices(4)}

EditorConfig(onSave, realTime, untested) ==
    [option \in DOMAIN DefaultConfig \cup {"enableOnSave", "enableRealTime"} |->
        IF option = "enableOnSave" THEN onSave
        ELSE IF option = "enableRealTime" THEN realTime
        ELSE IF option = "detectUntestedFields" THEN untested
        ELSE DefaultConfig[option]]

EditorConfigs ==
    {EditorConfig(onSave, realTime, untested) :
        onSave \in BOOLEAN, realTime \in BOOLEAN, untested \in BOOLEAN}

InitExtension ==
    /\ text = <<>>
    /\ parsed = EmptyParsed
    /\ testParsed = <<>>
    /\ config \in EditorConfigs
    /\ issues = <<>>
    /\ pc = "active"
    /\ walk = [kind |-> "", loop |-> <<>>, originalCall |-> <<>>]
    /\ stack = <<>>
    /\ visited = {}
    /\ expanded = <<>>
    /\ documents = [uri \in Uris |-> [content |-> BillingFile, version |-> 1]]
    /\ workspace \in {files \in Workspaces : Cardinality(files) <= 1}
    /\ debounceTimer = <<>>
    /\ scans = {}
    /\ diagnosticCollection = [uri \in Uris |-> <<>>]
    /\ started = [uri \in Uris |-> <<>>]

Edits == documents["doc1"].version + documents["doc2"].version - 2

ScansStarted == Len(started["doc1"]) + Len(started["doc2"])

\* vscode.workspace.findFiles('**/' + pattern, ...) (extension.ts:172)
findFiles(pattern) == {file \in workspace : file.name = pattern}

\* scanDocument up to its first await or, when it awaits nothing, to its end
\* (extension.ts:128-157): the primed editor variables of a call for uri
ScanDocument(uri, timer) ==
    LET file == documents[uri].content
        found == analyze(file, config)
    IN  /\ ScansStarted < MaxScans
        /\ started' = [started EXCEPT ![uri] = Append(@, file)]
        /\ debounceTimer' = timer
        /\ IF config.detectUntestedFields /\ ~file.isTestClass /\ file.className # <<>>
           THEN /\ scans' = scans \cup {[id |-> ScansStarted + 1, uri |-> uri, parsed |-> file,
                                         issues |-> found, candidate |-> 1,
                                         awaiting |-> "findFiles"]}
                /\ UNCHANGED diagnosticCollection
           ELSE /\ diagnosticCollection' = [diagnosticCollection EXCEPT ![uri] = found]
                /\ UNCHANGED scans
        /\ UNCHANGED <<text, parsed, testParsed, config, issues, pc, walk, stack, visited,
                       expanded, documents, workspace>>

\* onDidChangeTextDocument (extension.ts:76-90): the document has changed;
\* with real-time scanning the one debounceTimer is cleared and set anew
OnDidChangeTextDocument ==
    \E uri \in Uris, file \in EditorFiles :
        /\ Edits < MaxEdits
        /\ file # documents[uri].content
        /\ documents' = [documents EXCEPT ![uri] = [content |-> file, version |-> @.version + 1]]
        /\ debounceTimer' = IF config.enableRealTime THEN <<uri>> ELSE debounceTimer
        /\ UNCHANGED <<text, parsed, testParsed, config, issues, pc, walk, stack, visited,
                       expanded, workspace, scans, diagnosticCollection, started>>

\* the callback of setTimeout(..., 500) (extension.ts:85-87)
DebounceTimeout ==
    /\ debounceTimer # <<>>
    /\ ScanDocument(debounceTimer[1], <<>>)

\* onDidSaveTextDocument (extension.ts:67-73)
OnDidSaveTextDocument ==
    \E uri \in Uris :
        /\ config.enableOnSave
        /\ ScanDocument(uri, debounceTimer)

\* the rest of scanDocument once findAndParseTestClass has returned
\* (extension.ts:143-156)
ScanDocumentResumes(scan, testClassParsed) ==
    /\ diagnosticCollection' =
           [diagnosticCollection EXCEPT ![scan.uri] =
               IF testClassParsed = <<>> THEN scan.issues
               ELSE scan.issues \o analyzeUntestedFields(scan.parsed, testClassParsed[1])]
    /\ scans' = scans \ {scan}

\* the scan ends without storing anything when no candidate is left (a
\* mutant of NextCandidate)
NextCandidate_StoresNothing(scan) ==
    IF scan.candidate < 4
    THEN /\ scans' = (scans \ {scan})
                        \cup {[scan EXCEPT !.candidate = @ + 1, !.awaiting = "findFiles"]}
         /\ UNCHANGED diagnosticCollection
    ELSE /\ scans' = scans \ {scan}
         /\ UNCHANGED diagnosticCollection

\* the next pattern of the loop of findAndParseTestClass, or its return null
\* after the last (extension.ts:170, 184)
NextCandidate(scan) ==
    IF scan.candidate < 4
    THEN /\ scans' = (scans \ {scan})
                        \cup {[scan EXCEPT !.candidate = @ + 1, !.awaiting = "findFiles"]}
         /\ UNCHANGED diagnosticCollection
    ELSE ScanDocumentResumes(scan, <<>>)

\* await vscode.workspace.findFiles(...) returns (extension.ts:171-174)
FindFilesReturns ==
    \E scan \in scans :
        /\ scan.awaiting = "findFiles"
        /\ IF findFiles(testClassPatterns(scan.parsed.className)[scan.candidate]) # {}
           THEN /\ scans' = (scans \ {scan}) \cup {[scan EXCEPT !.awaiting = "openTextDocument"]}
                /\ UNCHANGED diagnosticCollection
           ELSE NextCandidate(scan)
        /\ UNCHANGED <<text, parsed, testParsed, config, issues, pc, walk, stack, visited,
                       expanded, documents, workspace, debounceTimer, started>>

\* await vscode.workspace.openTextDocument(files[0]) returns or throws, and
\* the parse of the text returns or throws (extension.ts:175-182)
OpenTextDocumentReturns ==
    \E scan \in scans :
        /\ scan.awaiting = "openTextDocument"
        /\ \E file \in findFiles(testClassPatterns(scan.parsed.className)[scan.candidate]) :
               IF file.opens
               THEN ScanDocumentResumes(scan, <<file.parsed>>)
               ELSE NextCandidate(scan)
        /\ UNCHANGED <<text, parsed, testParsed, config, issues, pc, walk, stack, visited,
                       expanded, documents, workspace, debounceTimer, started>>

NextExtension ==
    \/ OnDidChangeTextDocument
    \/ DebounceTimeout
    \/ OnDidSaveTextDocument
    \/ FindFilesReturns
    \/ OpenTextDocumentReturns

SpecExtension == InitExtension /\ [][NextExtension]_vars

(***************************************************************************)
(* The companion lookup alone (specification SpecLookup): documents that   *)
(* are saved and not edited, over every workspace of companion candidates. *)
(***************************************************************************)
InitLookup ==
    /\ text = <<>>
    /\ parsed = EmptyParsed
    /\ testParsed = <<>>
    /\ config \in {EditorConfig(TRUE, FALSE, untested) : untested \in BOOLEAN}
    /\ issues = <<>>
    /\ pc = "active"
    /\ walk = [kind |-> "", loop |-> <<>>, originalCall |-> <<>>]
    /\ stack = <<>>
    /\ visited = {}
    /\ expanded = <<>>
    /\ \E file \in EditorFiles :
           documents = [uri \in Uris |->
               [content |-> IF uri = "doc1" THEN file ELSE BillingFile, version |-> 1]]
    /\ workspace \in Workspaces
    /\ debounceTimer = <<>>
    /\ scans = {}
    /\ diagnosticCollection = [uri \in Uris |-> <<>>]
    /\ started = [uri \in Uris |-> <<>>]

NextLookup == OnDidSaveTextDocument \/ FindFilesReturns \/ OpenTextDocumentReturns

SpecLookup == InitLookup /\ [][NextLookup]_vars

(***************************************************************************)
(* The lexical structure the claims speak of: string literals and comments *)
(* as the language delimits them, read independently of the parser's       *)
(* scanner.  A backslash in a string escapes the character after it; the   *)
(* two characters that open or close a comment are taken together.         *)
(***************************************************************************)
LexFlags == [i |-> 0, mode |-> "code", quote |-> "", start |-> 0, literals |-> <<>>]

LexStep(t, st) ==
    LET char == At(t, st.i)
        nextChar == At(t, st.i + 1)
        one == [st EXCEPT !.i = @ + 1]
        two == [st EXCEPT !.i = @ + 2]
    IN
    CASE st.mode = "line" -> IF char = "\n" THEN [one EXCEPT !.mode = "code"] ELSE one
      [] st.mode = "block" ->
            IF char = "*" /\ nextChar = "/" THEN [two EXCEPT !.mode = "code"] ELSE one
      [] st.mode = "string" ->
            IF char = "\\" THEN two
            ELSE IF char = st.quote
            THEN [one EXCEPT !.mode = "code",
                             !.literals = Append(@, [open |-> st.start, close |-> st.i])]
            ELSE one
      [] OTHER ->
            IF char = "/" /\ nextChar = "/" THEN [two EXCEPT !.mode = "line"]
            ELSE IF char = "/" /\ nextChar = "*" THEN [two EXCEPT !.mode = "block"]
            ELSE IF char \in Quotes
            THEN [one EXCEPT !.mode = "string", !.quote = char, !.start = st.i]
            ELSE one

RECURSIVE LexLoop(_, _, _, _)
LexLoop(t, lo, hi, st) ==
    IF st.i >= hi \/ lo >= hi THEN st
    ELSE IF hi = lo + 1
    THEN (IF st.i = lo THEN LexStep(t, st) ELSE st)
    ELSE LET mid == (lo + hi) \div 2
             left == LexLoop(t, lo, mid, st)
         IN  IF left.i >= hi THEN left ELSE LexLoop(t, mid, hi, left)

\* the character at offset p belongs to a string literal or to a comment
InLiteralOrComment(t, p) == LexLoop(t, 0, p, LexFlags).mode # "code"

\* the closed string literals of t: the offsets of their two quotes
StringLiterals(t) == Range(LexLoop(t, 0, Len(t), LexFlags).literals)

\* the offset of a (line, character) position of t
OffsetOf(t, line, char) ==
    CHOOSE p \in 0..Len(t) : getLineAndChar(t, p) = [line |-> line, char |-> char]

Parsed == pc \in {"analyze", "analyzed"}

IssuesAt(type, position) ==
    {k \in DOMAIN issues : /\ issues[k].type = type
                           /\ issues[k].range[1] = position.line
                           /\ issues[k].range[2] = position.char}

(***************************************************************************)
(* C4.  Every statement `<verb> <expression>;` whose verb (insert, update, *)
(* delete, upsert, merge, undelete) is a whole word starting outside any   *)
(* string literal and any comment is recorded as a DataOperation, whatever *)
(* text precedes it; and when it stands on a line inside a loop and        *)
(* detectDMLInLoops is on, analyze reports a DML-in-loop issue for it.     *)
(***************************************************************************)
DMLStatementAt(t, p, word) ==
    LET after == p + Len(word) IN
    /\ MatchesAt(t, p, word)
    /\ ~IsWordChar(At(t, p - 1))
    /\ IsSpace(At(t, after))
    /\ \E semi \in (after + 2)..(Len(t) - 1) :
          /\ At(t, semi) = ";"
          /\ \A k \in after..(semi - 1) : At(t, k) # ";"
          /\ \E k \in after..(semi - 1) : ~IsSpace(At(t, k))
    /\ ~InLiteralOrComment(t, p)

C4_EveryStatementRecorded ==
    Parsed =>
        \A p \in 0..(Len(text) - 1), k \in DOMAIN dmlKeywords :
            DMLStatementAt(text, p, dmlKeywords[k].word) =>
                LET position == getLineAndChar(text, p) IN
                /\ \E d \in Range(parsed.dmlOperations) :
                      /\ d.operation = dmlKeywords[k].operation
                      /\ d.line = position.line
                      /\ d.startChar = position.char
                /\ (/\ pc = "analyzed"
                    /\ config.detectDMLInLoops
                    /\ \E l \in Range(parsed.loops) : isInLoop(position.line, l))
                   => IssuesAt("DML_IN_LOOP", position) # {}

(***************************************************************************)
(* C5.  No DataOperation starts inside a string literal or a comment, in   *)
(* the statement form and in the Database.<verb>(...) form alike, so no    *)
(* DML-in-loop issue is reported at a place inside a string literal or a   *)
(* comment.                                                                *)
(***************************************************************************)
C5_NoOperationInLiteralOrComment ==
    Parsed =>
        /\ \A d \in Range(parsed.dmlOperations) :
              ~InLiteralOrComment(text, OffsetOf(text, d.line, d.startChar))
        /\ \A k \in DOMAIN issues :
              issues[k].type = "DML_IN_LOOP" =>
                  ~InLiteralOrComment(text, OffsetOf(text, issues[k].range[1],
                                                     issues[k].range[2]))

(***************************************************************************)
(* C6.  A bracket query that is the iterated collection in the header of a *)
(* for-each loop, `for (Contact c : [SELECT ...]) {`, is not reported as   *)
(* SOQL in loop.                                                           *)
(***************************************************************************)
\* the offset after `for ( Type name :` and the blanks that follow it
IteratedCollectionAt(t, i) ==
    LET type == SkipSpaces(t, SkipSpaces(t, i + 3) + 1)
        name == SkipSpaces(t, SkipWord(t, type))
        colon == SkipSpaces(t, SkipWord(t, name))
    IN  SkipSpaces(t, colon + 1)

C6_HeaderQueryNotReported ==
    pc = "analyzed" =>
        \A i \in 0..(Len(text) - 1) :
            (/\ isForEachLoop(text, i)
             /\ ~IsWordChar(At(text, i - 1))
             /\ ~InLiteralOrComment(text, i)
             /\ At(text, IteratedCollectionAt(text, i)) = "[")
            => IssuesAt("SOQL_IN_LOOP",
                        getLineAndChar(text, IteratedCollectionAt(text, i))) = {}

(***************************************************************************)
(* C7.  parse() returns for every input text and never raises an           *)
(* exception, whatever characters the select list of a bracket query       *)
(* holds.                                                                  *)
(***************************************************************************)
C7_ParseNeverThrows == pc # "threw"

(***************************************************************************)
(* C8.  A quoted string is recorded as a HardcodedId if and only if its    *)
(* content is exactly 15 or exactly 18 alphanumeric characters, is not all *)
(* digits, is not a deny-listed literal and is not a 15-character value    *)
(* made only of hexadecimal digits.  The claim as first stated, without    *)
(* the last condition, is C8_AsStated.                                     *)
(***************************************************************************)
Content(t, literal) == substring(t, literal.open + 1, literal.close)

RecordedAsId(t, literal) ==
    LET position == getLineAndChar(t, literal.open) IN
    \E h \in Range(parsed.hardcodedIds) :
        /\ h.line = position.line
        /\ h.startChar = position.char
        /\ h.id = Content(t, literal)

DenyListed == {<<"a", "b", "o", "r", "t", "e", "d", "j", "o", "b", "s", "u", "m", "m", "a",
                 "r", "y">>}

LooksLikeId(value) ==
    /\ Len(value) \in {ShortIdLength, LongIdLength}
    /\ \A k \in DOMAIN value : IsAlnum(value[k])
    /\ \E k \in DOMAIN value : ~IsDigit(value[k])
    /\ [k \in DOMAIN value |-> toLowerCase(value[k])] \notin DenyListed

OnlyHexDigits(value) ==
    \A k \in DOMAIN value :
        value[k] \in Digits \cup {"a", "b", "c", "d", "e", "f", "A", "B", "C", "D", "E", "F"}

C8_AsStated ==
    Parsed =>
        \A literal \in StringLiterals(text) :
            RecordedAsId(text, literal) <=> LooksLikeId(Content(text, literal))

C8_RecordedIffLooksLikeId ==
    Parsed =>
        \A literal \in StringLiterals(text) :
            RecordedAsId(text, literal)
            <=> /\ LooksLikeId(Content(text, literal))
                /\ ~(/\ Len(Content(text, literal)) = ShortIdLength
                     /\ OnlyHexDigits(Content(text, literal)))

C8_Witness ==
    /\ Parsed
    /\ \E literal \in StringLiterals(text) :
          /\ Content(text, literal) = <<"0", "0", "1", "0", "0", "0", "0", "0", "0", "0", "0",
                                        "0", "0", "0", "1", "A", "A", "A">>
          /\ RecordedAsId(text, literal)

(***************************************************************************)
(* C9.  With detectHardcodedIds on, source holding the README's quoted     *)
(* literal '001000000000001' gets a Hardcoded-ID issue at that literal.    *)
(***************************************************************************)
C9_ReadmeExampleFlagged ==
    (pc = "analyzed" /\ config.detectHardcodedIds) =>
        \A literal \in StringLiterals(text) :
            Content(text, literal) = <<"0", "0", "1", "0", "0", "0", "0", "0", "0", "0", "0",
                                       "0", "0", "0", "1">>
            => IssuesAt("HARDCODED_ID", getLineAndChar(text, literal.open)) # {}

(***************************************************************************)
(* C10.  For every bracket query, hasLimit is true if and only if the      *)
(* query text holds the word LIMIT, then whitespace, then an integer; with *)
(* detectMissingLimits on, analyze reports exactly one Missing-limit issue *)
(* for a query with hasLimit false, and none for a query with hasLimit     *)
(* true or for a Database.query call.                                      *)
(***************************************************************************)
HoldsLimitClause(query) ==
    \E i \in 0..(Len(query) - 1), j \in 0..(Len(query) - 1) :
        /\ ~IsWordChar(At(query, i - 1))
        /\ [k \in 1..5 |-> toUpperCase(At(query, i + k - 1))] = <<"L", "I", "M", "I", "T">>
        /\ j > i + 5
        /\ \A k \in (i + 5)..(j - 1) : IsSpace(At(query, k))
        /\ IsDigit(At(query, j))

IsDatabaseQuery(soql) == soql.query = <<"D", "a", "t", "a", "b", "a", "s", "e", ".", "q", "u",
                                        "e", "r", "y", "(", ".", ".", ".", ")">>

MissingLimitIssues(soql) ==
    {k \in DOMAIN issues :
        /\ issues[k].type = "MISSING_LIMIT"
        /\ issues[k].range = <<soql.line, soql.startChar, soql.endLine, soql.endChar>>}

C10_LimitDetected ==
    Parsed =>
        \A soql \in Range(parsed.soqlQueries) :
            /\ IsDatabaseQuery(soql) => soql.hasLimit
            /\ ~IsDatabaseQuery(soql) => (soql.hasLimit <=> HoldsLimitClause(soql.query))
            /\ (pc = "analyzed" /\ config.detectMissingLimits)
               => Cardinality(MissingLimitIssues(soql)) = IF soql.hasLimit THEN 0 ELSE 1

C10_Witness ==
    /\ pc = "analyzed"
    /\ config.detectMissingLimits
    /\ \E soql \in Range(parsed.soqlQueries) :
          /\ ~IsDatabaseQuery(soql)
          /\ ~soql.hasLimit
          /\ \E i \in 0..(Len(soql.query) - 1) : MatchesAt(soql.query, i, <<"l", "i", "m", "i", "t">>)
          /\ Cardinality(MissingLimitIssues(soql)) = 1

(***************************************************************************)
(* C11.  With detectNonBulkifiedMethods enabled, a method that carries the *)
(* InvocableMethod annotation (its name compared without regard to case)   *)
(* yields exactly one non-bulkified-invocable issue when it has no         *)
(* parameter or its first parameter is not a List, and none when its first *)
(* parameter is a List; a method that does not carry the annotation yields *)
(* none.  A declaration carries the annotation when the annotation, with   *)
(* or without arguments, is what stands directly before it.                *)
(***************************************************************************)
CarriesInvocableMethod(t, p) ==
    \E a \in 0..(p - 1) :
        /\ At(t, a) = "@"
        /\ MatchesAt(t, a + 1, <<"i", "n", "v", "o", "c", "a", "b", "l", "e", "m", "e", "t",
                                 "h", "o", "d">>)
        /\ LET nameEnd == a + 16
               close == IndexOf(t, ")", nameEnd)
               argumentsEnd == IF At(t, nameEnd) = "(" /\ close # -1 THEN close + 1 ELSE nameEnd
           IN  SkipSpaces(t, argumentsEnd) = p

InvocableIssuesOf(method) ==
    {i \in DOMAIN issues : /\ issues[i].type = "NonBulkifiedInvocable"
                           /\ issues[i].range = MethodHeadRange(method)}

C11_OnePerInvocableMethod ==
    (pc = "analyzed" /\ config.detectNonBulkifiedMethods)
    => \A m \in DOMAIN parsed.methods :
           LET method == parsed.methods[m]
               p == OffsetOf(text, method.startLine, method.startChar)
           IN  Cardinality(InvocableIssuesOf(method))
                   = IF /\ CarriesInvocableMethod(text, p)
                        /\ \/ Len(method.parameters) = 0
                           \/ ~IsListParameter(method.parameters[1])
                     THEN 1 ELSE 0

(***************************************************************************)
(* C12.  detectSingleSObjectParameter reports a method if and only if the  *)
(* method has exactly one parameter, the parameter is an SObject type and  *)
(* not a collection, and some data operation of the method's body has the  *)
(* parameter's name as its targetVariable; it reports a method at most     *)
(* once, however many of its operations target the parameter.              *)
(***************************************************************************)
SingleSObjectIssuesOf(method) ==
    {i \in DOMAIN issues : /\ issues[i].type = "SingleSObjectParameter"
                           /\ issues[i].range = MethodHeadRange(method)}

OperationsOn(method, name) ==
    {d \in DOMAIN method.containsDML : method.containsDML[d].targetVariable = name}

C12_SingleSObjectParameter ==
    (pc = "analyzed" /\ config.detectNonBulkifiedMethods)
    => /\ \A m \in DOMAIN parsed.methods :
              LET method == parsed.methods[m] IN
              Cardinality(SingleSObjectIssuesOf(method))
                  = IF /\ Len(method.parameters) = 1
                       /\ method.parameters[1].isSObject
                       /\ ~method.parameters[1].isCollection
                       /\ OperationsOn(method, method.parameters[1].name) # {}
                    THEN 1 ELSE 0
       /\ \A i \in DOMAIN issues :
              issues[i].type = "SingleSObjectParameter"
              => \E m \in DOMAIN parsed.methods : i \in SingleSObjectIssuesOf(parsed.methods[m])

\* a method whose only parameter, an Account, is the target of two operations
\* is reported once
C12_Witness ==
    /\ pc = "analyzed"
    /\ \E m \in DOMAIN parsed.methods :
           LET method == parsed.methods[m] IN
           /\ Len(method.parameters) = 1
           /\ method.parameters[1].type = <<"A", "c", "c", "o", "u", "n", "t">>
           /\ Cardinality(OperationsOn(method, method.parameters[1].name)) = 2
           /\ Cardinality(SingleSObjectIssuesOf(method)) = 1

(***************************************************************************)
(* C13.  analyzeUntestedFields returns exactly one untested-field issue    *)
(* for each distinct lowercased field name ending in __c that occurs in    *)
(* the source file's fieldReferences and, lowercased, in no fieldReference *)
(* of the test file, and no other issue; the range of the issue is the     *)
(* position of the first source reference with that name.                  *)
(***************************************************************************)
UntestedFieldIssues == {i \in DOMAIN issues : issues[i].type = "UNTESTED_FIELD"}

LowerNamesOf(file) ==
    {toLowerCaseWord(file.fieldReferences[k].fieldName) : k \in DOMAIN file.fieldReferences}

UntestedNames ==
    {name \in LowerNamesOf(parsed) : EndsWith(name, <<"_", "_", "c">>)}
        \ LowerNamesOf(testParsed[1])

FirstReference(name) ==
    parsed.fieldReferences[
        Least({k \in DOMAIN parsed.fieldReferences :
                  toLowerCaseWord(parsed.fieldReferences[k].fieldName) = name})]

C13_OnePerUntestedField ==
    (pc = "scanned" /\ testParsed # <<>>)
    => /\ Cardinality(UntestedFieldIssues) = Cardinality(UntestedNames)
       /\ \A name \in UntestedNames :
              LET first == FirstReference(name) IN
              \E i \in UntestedFieldIssues :
                  issues[i].range = <<first.line, first.startChar, first.line, first.endChar>>

\* the two fields of the example, neither referenced by the test file: two
\* issues, one at each field
C13_Witness ==
    /\ pc = "scanned"
    /\ testParsed # <<>>
    /\ LowerNamesOf(parsed) = {<<"a", "c", "c", "o", "u", "n", "t", "_", "b", "i", "l", "l",
                                 "i", "n", "g", "_", "c", "o", "u", "n", "t", "r", "y", "_",
                                 "_", "c">>, <<"s", "a", "l", "e", "s", "_", "r", "e", "g", "i", "o", "n", "_", "o", "v", "e", "r", "r", "i", "d", "e", "_", "_", "c">>}
    /\ LowerNamesOf(testParsed[1]) = {<<"n", "a", "m", "e">>}
    /\ Len(issues) = 2
    /\ issues[1].range[1] # issues[2].range[1]

(***************************************************************************)
(* Nesting as the text shows it: a control structure starts where one of   *)
(* the words if, for, while stands as a whole word; its block runs from    *)
(* the first opening brace after the word to the matching closing brace;   *)
(* its depth is one more than the number of blocks it stands in.           *)
(***************************************************************************)
ControlWords == {<<"i", "f">>, <<"f", "o", "r">>, <<"w", "h", "i", "l", "e">>}

IsControlHead(t, p) ==
    \E word \in ControlWords :
        /\ MatchesAt(t, p, word)
        /\ ~IsWordChar(At(t, p - 1))
        /\ ~IsWordChar(At(t, p + Len(word)))

ControlHeads(t) == {p \in 0..(Len(t) - 1) : IsControlHead(t, p)}

BlockEnd(t, p) == findMatchingBrace(t, IndexOf(t, "{", p))

DepthAt(t, p) == 1 + Cardinality({q \in ControlHeads(t) : q < p /\ p < BlockEnd(t, q)})

LineAt(t, p) == getLineAndChar(t, p).line

DeepNestingIssuesOn(line) ==
    {i \in DOMAIN issues : issues[i].type = "DeeplyNestedCode" /\ issues[i].range[1] = line}

\* the text holds four `if` blocks and no other control structure, nested
\* inside one another, each header on a line of its own
FourNestedIfs(t) ==
    LET heads == ControlHeads(t) IN
    /\ Cardinality(heads) = 4
    /\ \A p \in heads : MatchesAt(t, p, <<"i", "f">>)
    /\ {DepthAt(t, p) : p \in heads} = 1..4
    /\ Cardinality({LineAt(t, p) : p \in heads}) = 4

(***************************************************************************)
(* C14.  Four brace-delimited `if` blocks nested inside one another, each  *)
(* on its own line, with threshold 3, yield exactly one deep-nesting       *)
(* issue, on the line of the fourth, innermost `if`; the three enclosing   *)
(* levels yield none.                                                      *)
(***************************************************************************)
C14_FourNestedIfs ==
    (pc = "analyzed" /\ maxDepth(config) = 3 /\ FourNestedIfs(text))
    => \A p \in ControlHeads(text) :
           /\ Cardinality(DeepNestingIssuesOn(LineAt(text, p)))
                  = IF DepthAt(text, p) = 4 THEN 1 ELSE 0
           /\ Cardinality({i \in DOMAIN issues : issues[i].type = "DeeplyNestedCode"}) = 1

\* four nested ifs with a statement before each of them, analysed with the
\* threshold 3: one issue
C14_Witness ==
    /\ pc = "analyzed"
    /\ config.maxNestingDepth = 3
    /\ FourNestedIfs(text)
    /\ \E p \in 0..(Len(text) - 1) : At(text, p) = ";"
    /\ Len(issues) = 1
    /\ issues[1].type = "DeeplyNestedCode"

(***************************************************************************)
(* C15.  For every configured maxNestingDepth N >= 1, with                 *)
(* detectDeeplyNestedCode enabled, a control structure opened at nesting   *)
(* depth d produces a deep-nesting issue if and only if d > N and it is    *)
(* the first such structure on its line: a line holds one issue when a     *)
(* structure deeper than N starts on it, and none otherwise.               *)
(***************************************************************************)
C15_EveryThreshold ==
    (pc = "analyzed" /\ config.detectDeeplyNestedCode /\ config.maxNestingDepth >= 1)
    => \A p \in ControlHeads(text) :
           Cardinality(DeepNestingIssuesOn(LineAt(text, p)))
               = IF \E q \in ControlHeads(text) :
                        /\ LineAt(text, q) = LineAt(text, p)
                        /\ DepthAt(text, q) > config.maxNestingDepth
                 THEN 1 ELSE 0

(***************************************************************************)
(* C16.  detectTriggerWithoutRecursionGuard emits exactly one issue when   *)
(* the file has a trigger with at least one data operation, no recursion   *)
(* guard, at least one event containing 'after' and at least one insert,   *)
(* update or upsert among its operations; in every other case (no trigger, *)
(* a guard, only before events, only delete, merge or undelete) it emits   *)
(* none.                                                                   *)
(***************************************************************************)
TriggerRecursionIssues ==
    {i \in DOMAIN issues : issues[i].type = "TriggerWithoutRecursionGuard"}

ContainsAfter(event) ==
    \E k \in 0..(Len(event) - 5) : substring(event, k, k + 5) = <<"a", "f", "t", "e", "r">>

MayRecurse(trigger) ==
    /\ Len(trigger.containsDML) >= 1
    /\ ~trigger.hasRecursionGuard
    /\ \E e \in DOMAIN trigger.events : ContainsAfter(trigger.events[e])
    /\ \E d \in DOMAIN trigger.containsDML :
           trigger.containsDML[d].operation \in {"insert", "update", "upsert"}

C16_TriggerWithoutGuard ==
    (pc = "analyzed" /\ config.detectTriggerRecursion)
    => Cardinality(TriggerRecursionIssues)
           = IF parsed.isTrigger /\ MayRecurse(parsed.triggerInfo[1]) THEN 1 ELSE 0

\* a trigger on before insert and after update that deletes and updates,
\* without a guard: one issue
C16_Witness ==
    /\ pc = "analyzed"
    /\ parsed.isTrigger
    /\ parsed.triggerInfo[1].events = <<<<"b", "e", "f", "o", "r", "e", " ", "i", "n", "s",
                                          "e", "r", "t">>, <<"a", "f", "t", "e", "r", " ", "u", "p", "d", "a", "t", "e">>>>
    /\ ~parsed.triggerInfo[1].hasRecursionGuard
    /\ Len(parsed.triggerInfo[1].containsDML) = 2
    /\ parsed.triggerInfo[1].containsDML[1].operation = "delete"
    /\ parsed.triggerInfo[1].containsDML[2].operation = "update"
    /\ Cardinality(TriggerRecursionIssues) = 1

(***************************************************************************)
(* C17.  Every via-call issue, for a directly called method and for a      *)
(* transitively reached one, SOQL and DML alike, carries a related         *)
(* location on the line of a query (or data operation) of the file, the    *)
(* fact's line inside the method rebased to file coordinates, also when    *)
(* the method's opening brace is on a later line than the start of its     *)
(* signature.                                                              *)
(***************************************************************************)
FactLines(type) ==
    IF type = "SOQL_IN_LOOP_VIA_METHOD"
    THEN {parsed.soqlQueries[q].line : q \in DOMAIN parsed.soqlQueries}
    ELSE {parsed.dmlOperations[d].line : d \in DOMAIN parsed.dmlOperations}

C17_RelatedLocationAtFact ==
    pc = "analyzed"
    => \A i \in DOMAIN issues :
           issues[i].type \in {"SOQL_IN_LOOP_VIA_METHOD", "DML_IN_LOOP_VIA_METHOD"}
           => /\ issues[i].related # NoRange
              /\ issues[i].related[1] \in FactLines(issues[i].type)

(***************************************************************************)
(* C18.  With no user settings a scan runs the RecordType-query detector   *)
(* and the non-bulkified-method detectors: both options are true in the    *)
(* configuration the analyzer gets, and a document containing              *)
(* `[SELECT Id FROM RecordType]` gets a RecordType-query issue at the      *)
(* query.                                                                  *)
(***************************************************************************)
RecordTypeQueryText == <<"[", "S", "E", "L", "E", "C", "T", " ", "I", "d", " ", "F", "R", "O",
                         "M", " ", "R", "e", "c", "o", "r", "d", "T", "y", "p", "e", "]">>

C18_DocumentedDefaultsRun ==
    \A p \in 0..(Len(text) - 1) :
        (/\ pc = "analyzed"
         /\ config = DefaultConfig
         /\ MatchesExactlyAt(text, p, RecordTypeQueryText))
        => /\ config.detectRecordTypeQueries
           /\ config.detectNonBulkifiedMethods
           /\ IssuesAt("RecordTypeQuery", getLineAndChar(text, p)) # {}

(***************************************************************************)
(* C19.  Each detector is toggled by its own option alone: changing one    *)
(* option changes only the issues of the detectors that option gates and   *)
(* leaves all other issues and their relative order unchanged.  The        *)
(* via-call detectors are gated by followMethodCalls: with it enabled they *)
(* report whether or not detectSOQLInLoops and detectDMLInLoops are.       *)
(***************************************************************************)
ToggledOptions ==
    {"detectSOQLInLoops", "detectDMLInLoops", "followMethodCalls", "detectHardcodedIds",
     "detectMissingLimits"}

\* the issue types of the detectors an option gates
GatedTypes(option) ==
    CASE option = "detectSOQLInLoops" -> {"SOQL_IN_LOOP"}
      [] option = "detectDMLInLoops" -> {"DML_IN_LOOP"}
      [] option = "followMethodCalls" -> {"SOQL_IN_LOOP_VIA_METHOD", "DML_IN_LOOP_VIA_METHOD"}
      [] option = "detectHardcodedIds" -> {"HARDCODED_ID"}
      [] option = "detectMissingLimits" -> {"MISSING_LIMIT"}

Toggle(cfg, option) == [cfg EXCEPT ![option] = ~@]

OtherIssues(list, option) ==
    LET NotGated(issue) == issue.type \notin GatedTypes(option) IN SelectSeq(list, NotGated)

C19_OwnOptionAlone ==
    pc = "analyzed"
    => \A option \in ToggledOptions :
           OtherIssues(issues, option)
               = OtherIssues(analyze(parsed, Toggle(config, option)), option)

(***************************************************************************)
(* Claims about the extension's handlers.                                  *)
(***************************************************************************)
\* the scanDocument calls of uri that have run to their end
Completed(uri) == Len(started[uri]) - Cardinality({scan \in scans : scan.uri = uri})

\* C21: with real-time scanning, a pending debounced scan of a document is
\* cancelled only by a newer edit of the same document: whenever the timer
\* stops being pending for a document, it is because that document's scan
\* has just been started, never because another document was edited.
C21_CancelledOnlyBySameDocument ==
    [][\A uri \in Uris :
          (debounceTimer = <<uri>> /\ debounceTimer' # <<uri>>)
              => Len(started'[uri]) = Len(started[uri]) + 1]_vars

\* the names of the companion test class of a class, in the order tried
CompanionCandidates(className) ==
    <<className \o <<"T", "e", "s", "t">>, className \o <<"_", "T", "e", "s", "t">>, <<"T", "e", "s", "t">> \o className,
      className \o <<"T", "e", "s", "t", "s">>>>

\* the candidates of a file that the workspace holds, and those that open
Found(file) ==
    {k \in 1..4 : \E companion \in workspace :
        companion.name = CompanionCandidates(file.className)[k] \o <<".", "c", "l", "s">>}

Opening(file) ==
    {k \in Found(file) : \E companion \in workspace :
        /\ companion.name = CompanionCandidates(file.className)[k] \o <<".", "c", "l", "s">>
        /\ companion.opens}

Companion(file, k) ==
    (CHOOSE companion \in workspace :
        companion.name = CompanionCandidates(file.className)[k] \o <<".", "c", "l", "s">>).parsed

\* a scan of the file runs the untested-field check
LookedUp(file) == config.detectUntestedFields /\ ~file.isTestClass /\ file.className # <<>>

\* the issues of a scan of the file that uses the k-th candidate, or with
\* k = 0 no companion
ScanIssues(file, k) ==
    analyze(file, config)
        \o (IF k = 0 THEN <<>> ELSE analyzeUntestedFields(file, Companion(file, k)))

\* the issues a scan of the file stores
ScanResult(file) ==
    ScanIssues(file, IF LookedUp(file) /\ Opening(file) # {} THEN Least(Opening(file)) ELSE 0)

\* C22: once all overlapping scans have completed, the diagnostics stored for
\* a document are those computed by its most recently started scan.
C22_LatestScanWins ==
    scans = {} =>
        \A uri \in Uris :
            started[uri] # <<>> =>
                diagnosticCollection[uri] = ScanResult(started[uri][Len(started[uri])])

\* C23 (as stated): when a companion candidate is found, the first one found
\* is the one the untested-field check uses.
C23_FirstFoundIsUsed ==
    \A uri \in Uris :
        LET file == documents[uri].content
        IN  (Completed(uri) > 0 /\ LookedUp(file) /\ Opening(file) # {})
                => diagnosticCollection[uri] = ScanIssues(file, Least(Found(file)))

\* C23 (amended): the untested-field check runs only when detectUntestedFields
\* is enabled, the file is not a test class and its class name is non-empty;
\* the candidates <Name>Test, <Name>_Test, Test<Name>, <Name>Tests are tried in
\* that order and the first one that is found and opens is used; when there
\* is none the check is skipped and the other issues of the scan are stored.
C23_FirstOpenedIsUsed ==
    \A uri \in Uris :
        Completed(uri) > 0 => diagnosticCollection[uri] = ScanResult(documents[uri].content)

\* a completed scan whose first found candidate did not open and that used a
\* later one, giving other issues than the first would have
C23_Witness ==
    LET file == documents["doc1"].content
    IN  /\ Completed("doc1") > 0
        /\ LookedUp(file)
        /\ Opening(file) # {}
        /\ Least(Opening(file)) > Least(Found(file))
        /\ diagnosticCollection["doc1"] = ScanIssues(file, Least(Opening(file)))
        /\ diagnosticCollection["doc1"] # ScanIssues(file, Least(Found(file)))

(***************************************************************************)
(* C24.  For a method called directly from a loop the via-call issue       *)
(* reports the first fact of the method body in source order: the verb of  *)
(* the message and the position of the related info are those of the       *)
(* textually first data operation of the body, and the position reported   *)
(* for a query is that of the textually first query of the body.           *)
(***************************************************************************)
\* the fact of a non-empty list that comes first in the text
TextuallyFirst(facts) ==
    CHOOSE first \in Range(facts) :
        \A fact \in Range(facts) :
            \/ first.line < fact.line
            \/ first.line = fact.line /\ first.startChar <= fact.startChar

\* the issues for the method named at the call site itself
DirectViaCallIssues(type) ==
    {k \in DOMAIN issues : issues[k].type = type /\ issues[k].message.name2 = <<>>}

C24_FirstFactInSourceOrder ==
    pc = "analyzed"
    => \A m \in DOMAIN parsed.methods :
           LET method == parsed.methods[m]
           IN  /\ \A k \in DirectViaCallIssues("DML_IN_LOOP_VIA_METHOD") :
                      issues[k].message.name1 = method.name
                      => /\ issues[k].message.operation
                                = TextuallyFirst(method.containsDML).operation
                         /\ issues[k].related[2] = TextuallyFirst(method.containsDML).startChar
               /\ \A k \in DirectViaCallIssues("SOQL_IN_LOOP_VIA_METHOD") :
                      issues[k].message.name1 = method.name
                      => issues[k].related[2] = TextuallyFirst(method.containsSOQL).startChar

(***************************************************************************)
(* Loops as the text shows them: a loop starts where for, while or do      *)
(* stands as a whole word outside literals and comments; the body of for   *)
(* and while follows the parenthesised header, the body of do follows the  *)
(* word; a `while (...)` that follows the closing brace of a do body is    *)
(* the tail of that do-while.                                              *)
(***************************************************************************)
LoopWordAt(t, p) ==
    IF MatchesAt(t, p, <<"f", "o", "r">>) THEN 3
    ELSE IF MatchesAt(t, p, <<"w", "h", "i", "l", "e">>) THEN 5
    ELSE IF MatchesAt(t, p, <<"d", "o">>) THEN 2
    ELSE 0

IsLoopKeyword(t, p) ==
    /\ LoopWordAt(t, p) > 0
    /\ ~IsWordChar(At(t, p - 1))
    /\ ~IsWordChar(At(t, p + LoopWordAt(t, p)))
    /\ ~InLiteralOrComment(t, p)

\* the offset of the parenthesis that closes the one at open: the first
\* offset where as many have closed as have opened
ParenDepth(t, open, p) ==
    Cardinality({k \in open..p : At(t, k) = "("}) - Cardinality({k \in open..p : At(t, k) = ")"})

HeaderClose(t, open) ==
    Least({p \in open..(Len(t) - 1) : ParenDepth(t, open, p) = 0} \cup {Len(t)})

\* the offset where the body of the loop at p starts
LoopBodyAt(t, p) ==
    IF LoopWordAt(t, p) = 2 THEN SkipSpaces(t, p + 2)
    ELSE SkipSpaces(t, HeaderClose(t, SkipSpaces(t, p + LoopWordAt(t, p))) + 1)

\* the while at p is the tail of a do-while
IsDoWhileTail(t, p) ==
    \E d \in 0..(p - 1) :
        /\ IsLoopKeyword(t, d)
        /\ LoopWordAt(t, d) = 2
        /\ At(t, LoopBodyAt(t, d)) = "{"
        /\ findMatchingBrace(t, LoopBodyAt(t, d)) # -1
        /\ SkipSpaces(t, findMatchingBrace(t, LoopBodyAt(t, d)) + 1) = p

\* the offset where a Loop fact starts
LoopOffset(t, loop) == OffsetOf(t, loop.startLine, loop.startChar - 1)

(***************************************************************************)
(* C25.  findLoops opens a Loop only where for, while or do is a whole     *)
(* keyword outside strings and comments: every Loop fact starts at such a  *)
(* keyword, so after a call of waitFor(...) or checkFor(...) no Loop fact  *)
(* exists and nothing in a later block is reported as being in a loop.     *)
(***************************************************************************)
C25_LoopsStartAtKeywords ==
    /\ Parsed => \A l \in DOMAIN parsed.loops :
                     IsLoopKeyword(text, LoopOffset(text, parsed.loops[l]))
    /\ (pc = "analyzed" /\ \A p \in 0..(Len(text) - 1) : ~IsLoopKeyword(text, p))
           => \A k \in DOMAIN issues : issues[k].type \notin {"SOQL_IN_LOOP", "DML_IN_LOOP"}

(***************************************************************************)
(* C26.  The `while (<condition>);` tail of a do-while never opens a Loop, *)
(* whatever the condition holds: no Loop fact starts at a tail, and a      *)
(* brace-delimited do-while yields exactly one Loop fact, of kind          *)
(* do-while, ending on the line of the closing brace of its body.          *)
(***************************************************************************)
C26_DoWhileTailOpensNoLoop ==
    Parsed =>
        /\ \A l \in DOMAIN parsed.loops :
              ~IsDoWhileTail(text, LoopOffset(text, parsed.loops[l]))
        /\ \A d \in 0..(Len(text) - 1) :
              (IsLoopKeyword(text, d) /\ LoopWordAt(text, d) = 2)
              => LET facts == {l \in DOMAIN parsed.loops :
                                  LoopOffset(text, parsed.loops[l]) = d}
                 IN  /\ Cardinality(facts) = 1
                     /\ \A l \in facts :
                           /\ parsed.loops[l].type = "do-while"
                           /\ parsed.loops[l].endLine
                                  = LineAt(text, findMatchingBrace(text, LoopBodyAt(text, d)))

(***************************************************************************)
(* C27.  Every Loop fact spans from its loop keyword to the closing brace  *)
(* of that loop's own body block, with startLine <= endLine; a loop whose  *)
(* body is a single statement without braces yields no Loop fact and does  *)
(* not extend over a later sibling block.                                  *)
(***************************************************************************)
C27_LoopSpansOwnBody ==
    Parsed =>
        \A l \in DOMAIN parsed.loops :
            LET loop == parsed.loops[l]
                p == LoopOffset(text, loop)
            IN  (IsLoopKeyword(text, p) /\ ~IsDoWhileTail(text, p))
                => /\ loop.startLine <= loop.endLine
                   /\ At(text, LoopBodyAt(text, p)) = "{"
                   /\ loop.endLine = LineAt(text, findMatchingBrace(text, LoopBodyAt(text, p)))

(***************************************************************************)
(* C28.  A control construct with a brace body stays on the nesting stack  *)
(* from its keyword to its own closing brace, a traditional                *)
(* `for (init; cond; step) { ... }` included, so the depth recorded for a  *)
(* construct is the number of control constructs that enclose it plus one. *)
(***************************************************************************)
C28_DepthCountsEnclosingConstructs ==
    Parsed =>
        \A k \in DOMAIN parsed.deepNestings :
            LET fact == parsed.deepNestings[k]
                p == OffsetOf(text, fact.line, fact.startChar - 1)
            IN  /\ IsControlHead(text, p)
                /\ fact.depth = DepthAt(text, p)

(***************************************************************************)
(* C29.  The scanner honours escape sequences: a string literal is closed  *)
(* by the first delimiter preceded by an even number of backslashes, so a  *)
(* literal whose last character is an escaped backslash is closed by the   *)
(* quote that follows it and the text after that quote is classified as    *)
(* outside the string.                                                     *)
(***************************************************************************)
C29_EscapedBackslashClosesLiteral ==
    \A literal \in StringLiterals(text) : ~isInStringOrComment(text, literal.close + 1)

(***************************************************************************)
(* C30.  In every scanner state at most one of inString, inLineComment,    *)
(* inBlockComment is set: `//` or `/*` inside a string opens no comment, a *)
(* quote inside a comment opens no string, a line comment ends at the next *)
(* newline, and a string or block comment that is still open at the end of *)
(* the input is reported as open at every offset after its start.          *)
(***************************************************************************)
\* the flags of isInStringOrComment and of findLoops before offset p
FlagsAt(t, p) == IsInStringOrCommentLoop(t, 0, p, ScanFlags)

LoopFlagsAt(t, p) ==
    FindLoopsLoop(t, 0, p,
                  [i |-> 0, inString |-> FALSE, stringChar |-> "",
                   inLineComment |-> FALSE, inBlockComment |-> FALSE, braceDepth |-> 0,
                   currentLine |-> 0, currentChar |-> 0, loopStarts |-> <<>>,
                   loops |-> <<>>])

AtMostOneFlag(st) ==
    /\ ~(st.inString /\ st.inLineComment)
    /\ ~(st.inString /\ st.inBlockComment)
    /\ ~(st.inLineComment /\ st.inBlockComment)

\* what the character at offset p belongs to: "code", "string", "line" or
\* "block"
ModeAt(t, p) == LexLoop(t, 0, p, LexFlags).mode

\* the string or comment that holds offset p is still open at the end of t
OpenToTheEnd(t, p) ==
    /\ ModeAt(t, p) \in {"string", "block"}
    /\ \A q \in p..Len(t) : ModeAt(t, q) = ModeAt(t, p)

C30_OneFlagAtATime ==
    \A p \in 0..Len(text) :
        LET st == FlagsAt(text, p) IN
        /\ AtMostOneFlag(st)
        /\ AtMostOneFlag(LoopFlagsAt(text, p))
        /\ ModeAt(text, p) = "string" => ~st.inLineComment /\ ~st.inBlockComment
        /\ ModeAt(text, p) \in {"line", "block"} => ~st.inString
        /\ (p > 0 /\ At(text, p - 1) = "\n") => ~st.inLineComment
        /\ OpenToTheEnd(text, p) => isInStringOrComment(text, p)

====
